---------------------------- MODULE Spec2Model ----------------------------
(***************************************************************************)
(* Kraken trade analyzer (src/src/Kraken.py): the FIFO lot accounting of   *)
(* aggregate_trades, the interactive adjustment of remaining balances      *)
(* (maybe_adjust_balances / shrink_lots_fifo_to_target) and the helpers    *)
(* they rest on (d, safe_div, parse_pair).                                 *)
(*                                                                         *)
(* Numbers are Python Decimals under getcontext().prec = 28: finite        *)
(* numbers, infinities and NaNs, with the exceptions the default context   *)
(* traps (see "Decimal" below).  A finite Decimal is modelled by its       *)
(* numeric value: a sign, a coefficient (a sequence of decimal digits,     *)
(* least significant first, no leading zero, the empty sequence for 0) and *)
(* an exponent, kept in canonical form (no trailing zero in the            *)
(* coefficient).  Every arithmetic result is rounded to prec significant   *)
(* digits, ROUND_HALF_EVEN, as the decimal context does.  The textual form *)
(* of a Decimal (its exponent, "1.0" against "1") is not modelled: Decimal *)
(* comparison is numeric.  A float (the time of a record) is held as the   *)
(* exact decimal value of the double.                                      *)
(*                                                                         *)
(* A raise is modelled where the program handles or shows it: the skip of  *)
(* a record (the try block of aggregate_trades), "Please enter a valid     *)
(* number" (the try block of maybe_adjust_balances), and pc = "raised"     *)
(* for an exception that leaves main().                                    *)
(*                                                                         *)
(* Text is modelled as a sequence of one-character strings, over the       *)
(* ASCII characters of Alphabet; an absent value (None) and the empty text *)
(* are one value, as both are false for  x or default.                     *)
(***************************************************************************)
EXTENDS Integers, Sequences, FiniteSets, TLC

\* getcontext().prec = 28
prec == 28

Max(a, b) == IF a >= b THEN a ELSE b
Min(a, b) == IF a <= b THEN a ELSE b

(***************************************************************************)
(* Natural numbers of any size: digit sequences, least significant first.  *)
(***************************************************************************)
Dig(a, i) == IF 1 <= i /\ i <= Len(a) THEN a[i] ELSE 0

\* the positions of the most and of the least significant non-zero digit,
\* 0 when there is none
NTop(a) ==
  IF a = <<>> THEN 0
  ELSE IF a[Len(a)] # 0 THEN Len(a)
  ELSE LET nz == {i \in 1..Len(a) : a[i] # 0}
       IN  IF nz = {} THEN 0 ELSE CHOOSE i \in nz : \A j \in nz : j <= i
NLow(a) ==
  IF a = <<>> THEN 0
  ELSE IF a[1] # 0 THEN 1
  ELSE LET nz == {i \in 1..Len(a) : a[i] # 0}
       IN  IF nz = {} THEN 0 ELSE CHOOSE i \in nz : \A j \in nz : i <= j

\* without leading zeros
NStrip(a) == SubSeq(a, 1, NTop(a))

\* a short number as an integer, and back
RECURSIVE NToInt(_)
NToInt(a) == IF a = <<>> THEN 0 ELSE a[1] + 10 * NToInt(Tail(a))
RECURSIVE NFromInt(_)
NFromInt(n) == IF n = 0 THEN <<>> ELSE <<n % 10>> \o NFromInt(n \div 10)

\* a + b, in machine integers when both have at most 8 digits; else digit
\* i takes a carry when a lower column overflows and every column between
\* is 9
NAdd(a, b) ==
  IF Len(a) <= 8 /\ Len(b) <= 8 THEN NFromInt(NToInt(a) + NToInt(b))
  ELSE LET col(i) == Dig(a, i) + Dig(b, i)
           cin(i) == IF \E j \in 1..(i - 1) :
                          col(j) >= 10 /\ \A k \in (j + 1)..(i - 1) : col(k) = 9
                     THEN 1 ELSE 0
       IN  NStrip([i \in 1..(Max(Len(a), Len(b)) + 1) |-> (col(i) + cin(i)) % 10])

\* a - b for a >= b, in machine integers when a has at most 8 digits; else
\* digit i gives a borrow when a lower column is short and every column
\* between is 0
NSub(a, b) ==
  IF Len(a) <= 8 THEN NFromInt(NToInt(a) - NToInt(b))
  ELSE LET col(i) == Dig(a, i) - Dig(b, i)
           bin(i) == IF \E j \in 1..(i - 1) :
                          col(j) < 0 /\ \A k \in (j + 1)..(i - 1) : col(k) = 0
                     THEN 1 ELSE 0
       IN  NStrip([i \in 1..Len(a) |-> (col(i) + 10 - bin(i)) % 10])

\* -1, 0, 1 as a < b, a = b, a > b (both without leading zeros)
NCmp(a, b) ==
  IF Len(a) < Len(b) THEN -1
  ELSE IF Len(a) > Len(b) THEN 1
  ELSE IF a = b THEN 0
  ELSE LET i == CHOOSE i \in 1..Len(a) :
                  a[i] # b[i] /\ \A j \in (i + 1)..Len(a) : a[j] = b[j]
       IN  IF a[i] < b[i] THEN -1 ELSE 1

\* a * 10^k
NShift(a, k) == IF a = <<>> THEN <<>> ELSE [i \in 1..k |-> 0] \o a

\* one pass of carries over columns that may exceed 9
NCarry(cols) ==
  [i \in 1..(Len(cols) + 1) |-> (Dig(cols, i) % 10) + (Dig(cols, i - 1) \div 10)]

\* column k of a * b: the sum of a[j] * b[k + 1 - j] over j = 1..i
RECURSIVE NColSum(_, _, _, _)
NColSum(a, b, k, i) ==
  IF i = 0 THEN 0
  ELSE a[i] * Dig(b, k + 1 - i) + NColSum(a, b, k, i - 1)

\* the column sums of a * b, each at most 81 * Len(a)
NMulCols(a, b) ==
  [k \in 1..(Len(a) + Len(b)) |-> NColSum(a, b, k, Min(Len(a), k))]

\* columns of at most 12 each: their digits plus the carries left
NMulCarried(c) ==
  NAdd(NStrip([i \in 1..Len(c) |-> c[i] % 10]),
       NStrip([i \in 1..(Len(c) + 1) |-> Dig(c, i - 1) \div 10]))

\* a * b, in machine integers when the product has at most 9 digits; else
\* the column sums, four passes of carries, a last addition
NMul(a, b) ==
  IF a = <<>> \/ b = <<>> THEN <<>>
  ELSE IF Len(a) + Len(b) <= 9 THEN NFromInt(NToInt(a) * NToInt(b))
  ELSE NMulCarried(NCarry(NCarry(NCarry(NCarry(NMulCols(a, b))))))

\* the largest digit q with q * b <= r, for r < 10 * b, and r - q * b
RECURSIVE NQuotDig(_, _, _)
NQuotDig(r, b, q) ==
  IF NCmp(r, b) < 0 THEN [q |-> q, r |-> r]
  ELSE NQuotDig(NSub(r, b), b, q + 1)

\* long division: the digits of a from the most significant one down; st is
\* the quotient digit and the remainder of the step at digit i
RECURSIVE NDivAt(_, _, _, _, _)
RECURSIVE NDivStep(_, _, _, _, _)
NDivAt(a, b, i, q, r) ==
  IF i = 0 THEN [q |-> NStrip(q), r |-> r]
  ELSE NDivStep(a, b, i, q, NQuotDig(NStrip(<<a[i]>> \o r), b, 0))
NDivStep(a, b, i, q, st) ==
  \* the test has the digits so far computed before the next step
  IF Len(q) + Len(st.r) >= 0
  THEN NDivAt(a, b, i - 1, <<st.q>> \o q, st.r)
  ELSE [q |-> <<>>, r |-> <<>>]

\* the same long division by a divisor of at most 8 digits, the running
\* remainder r held as an integer; r1 is 10 * r + a[i]
RECURSIVE NDivSmallAt(_, _, _, _, _)
RECURSIVE NDivSmallStep(_, _, _, _, _)
NDivSmallAt(a, b, i, q, r) ==
  IF i = 0 THEN [q |-> NStrip(q), r |-> NFromInt(r)]
  ELSE NDivSmallStep(a, b, i, q, 10 * r + a[i])
NDivSmallStep(a, b, i, q, r1) ==
  \* the test has the digits so far computed before the next step
  IF Len(q) + r1 >= 0
  THEN NDivSmallAt(a, b, i - 1, <<r1 \div b>> \o q, r1 % b)
  ELSE [q |-> <<>>, r |-> <<>>]

\* divmod(a, b) for b > 0: the digits of a above the top Len(b) - 1 give
\* the quotient 0, so the division starts below them
NDivMod(a, b) ==
  IF Len(a) < Len(b) THEN [q |-> <<>>, r |-> NStrip(a)]
  ELSE IF Len(b) <= 8
  THEN NDivSmallAt(a, NToInt(b), Len(a) - Len(b) + 1, <<>>,
                   NToInt(SubSeq(a, Len(a) - Len(b) + 2, Len(a))))
  ELSE NDivAt(a, b, Len(a) - Len(b) + 1, <<>>,
              NStrip(SubSeq(a, Len(a) - Len(b) + 2, Len(a))))

\* b^k by squaring
RECURSIVE NPow(_, _)
NSquare(h) == NMul(h, h)
NPow(b, k) ==
  IF k = 0 THEN <<1>>
  ELSE IF k % 2 = 0 THEN NSquare(NPow(b, k \div 2))
  ELSE NMul(b, NPow(b, k - 1))

(***************************************************************************)
(* Decimal.  A value is [k, s, c, e]:                                      *)
(*   k = "finite":   the number s * c * 10^e, s the sign (1 or -1), c the  *)
(*                   coefficient without trailing zeros (the empty         *)
(*                   sequence for 0, which keeps its sign), e the exponent *)
(*                   (0 for 0);                                            *)
(*   k = "Infinity": s * Infinity;                                         *)
(*   k = "NaN", "sNaN": a quiet or a signaling NaN of sign s, c the digits *)
(*                   of its payload;                                       *)
(*   k a signal (InvalidOperation, DivisionByZero, Overflow): no Decimal,  *)
(*                   the operation raised that exception, the three        *)
(*                   signals being the traps of the default context, or    *)
(*                   IndexError (the first entry of an empty list).  An    *)
(*                   operation on a raised operand is that raise: the      *)
(*                   expression was left where it happened.                *)
(* The context is the default one with prec = 28: ROUND_HALF_EVEN,         *)
(* Emax = 999999, Emin = -999999, clamp = 0.                               *)
(***************************************************************************)
Emax == 999999
Emin == -Emax
Etiny == Emin - prec + 1

Signals == {"InvalidOperation", "DivisionByZero", "Overflow"}
Raises == Signals \cup {"IndexError"}

DNum(s, c, e) == [k |-> "finite", s |-> s, c |-> c, e |-> e]
DInf(s) == [k |-> "Infinity", s |-> s, c |-> <<>>, e |-> 0]
DNaN(k, s, c) == [k |-> k, s |-> s, c |-> c, e |-> 0]
DRaise(signal) == [k |-> signal, s |-> 1, c |-> <<>>, e |-> 0]

IsFinite(x) == x.k = "finite"
IsInf(x) == x.k = "Infinity"
IsNaN(x) == x.k = "NaN" \/ x.k = "sNaN"
Raised(x) == x.k \in Raises
IsZero(x) == x.k = "finite" /\ x.c = <<>>

DZero == DNum(1, <<>>, 0)

\* the canonical form of s * c * 10^e
DCanon(s, c, e) ==
  IF NTop(c) = 0 THEN DNum(s, <<>>, 0)
  ELSE DNum(s, SubSeq(c, NLow(c), NTop(c)), e + NLow(c) - 1)

\* c (no leading zeros) without its k >= 1 lowest digits, ROUND_HALF_EVEN
DRound(s, c, e, k) ==
  DCanon(s,
         IF Dig(c, k) > 5
            \/ (Dig(c, k) = 5
                /\ ((\E i \in 1..(k - 1) : Dig(c, i) # 0) \/ Dig(c, k + 1) % 2 = 1))
         THEN NAdd(SubSeq(c, k + 1, Len(c)), <<1>>)
         ELSE SubSeq(c, k + 1, Len(c)),
         e + k)

\* a rounded result above Emax: Overflow
DOverflow(x) ==
  IF x.c # <<>> /\ Len(x.c) + x.e - 1 > Emax THEN DRaise("Overflow") ELSE x

\* Decimal._fix: the exact result s * c * 10^e rounded to prec significant
\* digits, and to a multiple of 10^Etiny when it is subnormal; exp_min is
\* the exponent of the last digit kept
DFixAt(s, c, e, exp_min) ==
  IF e >= exp_min THEN DCanon(s, c, e)
  ELSE DOverflow(DRound(s, c, e, exp_min - e))
DFixed(s, c, e) ==
  IF c = <<>> THEN DNum(s, <<>>, 0)
  ELSE IF Len(c) + e - 1 > Emax THEN DRaise("Overflow")
  ELSE DFixAt(s, c, e, Max(Len(c) + e - prec, Etiny))
DFix(s, c0, e) == DFixed(s, NStrip(c0), e)
DFixRec(x) == DFix(x.s, x.c, x.e)

\* a NaN as the result of an operation: at most prec digits of payload
DFixNaN(x) == [x EXCEPT !.c = NStrip(SubSeq(@, 1, Min(Len(@), prec)))]

\* Decimal._check_nans, one operand at least a NaN: a signaling NaN signals
\* InvalidOperation, a quiet one is the result, the first operand's first
DNaNOf(a, b) ==
  IF a.k = "sNaN" \/ b.k = "sNaN" THEN DRaise("InvalidOperation")
  ELSE IF a.k = "NaN" THEN DFixNaN(a)
  ELSE DFixNaN(b)

\* copy_negate of a number
DNeg(a) == [a EXCEPT !.s = -a.s]

\* the exact sum of sa * ca * 10^e and sb * cb * 10^e, not yet rounded; 0
\* when the two cancel
DAddAligned(sa, ca, sb, cb, e) ==
  IF sa = sb THEN [s |-> sa, c |-> NAdd(ca, cb), e |-> e]
  ELSE IF NCmp(ca, cb) > 0 THEN [s |-> sa, c |-> NSub(ca, cb), e |-> e]
  ELSE IF NCmp(ca, cb) < 0 THEN [s |-> sb, c |-> NSub(cb, ca), e |-> e]
  ELSE [s |-> 1, c |-> <<>>, e |-> e]
DAddExact(a, b) ==
  DAddAligned(a.s, NShift(a.c, a.e - Min(a.e, b.e)),
              b.s, NShift(b.c, b.e - Min(a.e, b.e)), Min(a.e, b.e))

\* _normalize: hi the operand of the larger exponent; an lo that lies
\* wholly below exp, two places under the last digit of the result, counts
\* as 1 * 10^exp, which rounds the same
DAddNorm(hi, lo, exp) ==
  DFixRec(DAddExact(hi, IF Len(lo.c) + lo.e - 1 < exp
                        THEN DNum(lo.s, <<1>>, exp) ELSE lo))

\* a + b for two finite numbers
DAddFinite(a, b) ==
  IF a.c = <<>> /\ b.c = <<>>
  THEN DNum(IF a.s = -1 /\ b.s = -1 THEN -1 ELSE 1, <<>>, 0)
  ELSE IF a.c = <<>> THEN DFixRec(b)
  ELSE IF b.c = <<>> THEN DFixRec(a)
  ELSE IF a.e >= b.e
  THEN DAddNorm(a, b, a.e + Min(-1, Len(a.c) - prec - 2))
  ELSE DAddNorm(b, a, b.e + Min(-1, Len(b.c) - prec - 2))

\* a + b (Decimal.__add__)
DAdd(a, b) ==
  IF Raised(a) THEN a
  ELSE IF Raised(b) THEN b
  ELSE IF IsNaN(a) \/ IsNaN(b) THEN DNaNOf(a, b)
  ELSE IF IsInf(a)
  THEN IF IsInf(b) /\ a.s # b.s THEN DRaise("InvalidOperation") ELSE a
  ELSE IF IsInf(b) THEN b
  ELSE DAddFinite(a, b)

\* a - b (Decimal.__sub__): a + b.copy_negate(), the NaNs looked at first
DSub(a, b) ==
  IF IsFinite(b) \/ IsInf(b) THEN DAdd(a, DNeg(b)) ELSE DAdd(a, b)

\* a * b (Decimal.__mul__)
DMul(a, b) ==
  IF Raised(a) THEN a
  ELSE IF Raised(b) THEN b
  ELSE IF IsNaN(a) \/ IsNaN(b) THEN DNaNOf(a, b)
  ELSE IF IsInf(a) \/ IsInf(b)
  THEN IF IsZero(a) \/ IsZero(b) THEN DRaise("InvalidOperation")
       ELSE DInf(a.s * b.s)
  ELSE DFix(a.s * b.s, NMul(a.c, b.c), a.e + b.e)

\* a / b for two finite numbers that are not 0: the quotient of the
\* coefficients with prec + 1 digits, its last digit made inexact when a
\* remainder is left
DDivRound(s, dm, e) ==
  DFix(s,
       IF dm.r # <<>> /\ Dig(dm.q, 1) % 5 = 0 THEN NAdd(dm.q, <<1>>) ELSE dm.q,
       e)
DDivShift(a, b, shift) ==
  DDivRound(a.s * b.s,
            IF shift >= 0 THEN NDivMod(NShift(a.c, shift), b.c)
            ELSE NDivMod(a.c, NShift(b.c, -shift)),
            a.e - b.e - shift)

\* a / b (Decimal.__truediv__)
DDiv(a, b) ==
  IF Raised(a) THEN a
  ELSE IF Raised(b) THEN b
  ELSE IF IsNaN(a) \/ IsNaN(b) THEN DNaNOf(a, b)
  ELSE IF IsInf(a)
  THEN IF IsInf(b) THEN DRaise("InvalidOperation") ELSE DInf(a.s * b.s)
  ELSE IF IsInf(b) THEN DNum(a.s * b.s, <<>>, 0)
  ELSE IF b.c = <<>>
  THEN IF a.c = <<>> THEN DRaise("InvalidOperation")
       ELSE DRaise("DivisionByZero")
  ELSE IF a.c = <<>> THEN DNum(a.s * b.s, <<>>, 0)
  ELSE DDivShift(a, b, Len(b.c) - Len(a.c) + prec + 1)

\* -1, 0, 1 as x < 0, x = 0, x > 0, for a number
DSign(x) == IF IsZero(x) THEN 0 ELSE x.s

\* -1, 0, 1 as a < b, a = b, a > b, for two finite numbers of one sign that
\* are not 0, by the place of the leading digit and then by the digits
DCmpDigits(a, b) ==
  IF Len(a.c) + a.e # Len(b.c) + b.e
  THEN IF Len(a.c) + a.e < Len(b.c) + b.e THEN -a.s ELSE a.s
  ELSE a.s * NCmp(NShift(a.c, a.e - Min(a.e, b.e)),
                  NShift(b.c, b.e - Min(a.e, b.e)))

\* -1, 0, 1 as a < b, a = b, a > b (Decimal._cmp), for two numbers
DCmp(a, b) ==
  IF DSign(a) # DSign(b) THEN (IF DSign(a) < DSign(b) THEN -1 ELSE 1)
  ELSE IF DSign(a) = 0 THEN 0
  ELSE IF IsInf(a) THEN (IF IsInf(b) THEN 0 ELSE a.s)
  ELSE IF IsInf(b) THEN -b.s
  ELSE DCmpDigits(a, b)

\* a < b, a <= b, a > b, a >= b raise InvalidOperation on a NaN
CmpRaises(a, b) == Raised(a) \/ Raised(b) \/ IsNaN(a) \/ IsNaN(b)
\* the raise of a comparison that raises
CmpRaise(a, b) ==
  IF Raised(a) THEN a ELSE IF Raised(b) THEN b ELSE DRaise("InvalidOperation")

\* a < b, a <= b, a > b, a >= b where the comparison does not raise
DLt(a, b) == ~CmpRaises(a, b) /\ DCmp(a, b) < 0
DLe(a, b) == ~CmpRaises(a, b) /\ DCmp(a, b) <= 0
DGt(a, b) == ~CmpRaises(a, b) /\ DCmp(a, b) > 0
DGe(a, b) == ~CmpRaises(a, b) /\ DCmp(a, b) >= 0

\* a == b, a != b raise InvalidOperation on a signaling NaN only; a quiet
\* NaN equals nothing
EqRaises(a, b) == Raised(a) \/ Raised(b) \/ a.k = "sNaN" \/ b.k = "sNaN"
DEq(a, b) == ~CmpRaises(a, b) /\ DCmp(a, b) = 0

\* min(a, b) of two Decimals: b only when b < a
DMin(a, b) ==
  IF CmpRaises(a, b) THEN CmpRaise(a, b) ELSE IF DLt(b, a) THEN b ELSE a

\* sum(xs, Decimal("0"))
RECURSIVE DSum(_)
DSum(xs) == IF xs = <<>> THEN DZero
            ELSE DAdd(DSum(SubSeq(xs, 1, Len(xs) - 1)), xs[Len(xs)])

(***************************************************************************)
(* Text: sequences of one-character strings.                               *)
(***************************************************************************)
DigitChars == <<"0", "1", "2", "3", "4", "5", "6", "7", "8", "9">>
LowerChars == <<"a", "b", "c", "d", "e", "f", "g", "h", "i", "j", "k", "l", "m",
                "n", "o", "p", "q", "r", "s", "t", "u", "v", "w", "x", "y", "z">>
UpperChars == <<"A", "B", "C", "D", "E", "F", "G", "H", "I", "J", "K", "L", "M",
                "N", "O", "P", "Q", "R", "S", "T", "U", "V", "W", "X", "Y", "Z">>

IsDigit(ch) == \E i \in 1..10 : DigitChars[i] = ch
DigitVal(ch) == (CHOOSE i \in 1..10 : DigitChars[i] = ch) - 1
\* the whitespace characters a text of the model can hold
IsSpace(ch) == ch \in {" ", "\t", "\n", "\r", "\f"}

\* str.upper(), str.lower()
Upper(str) ==
  [i \in 1..Len(str) |->
     IF \E j \in 1..26 : LowerChars[j] = str[i]
     THEN UpperChars[CHOOSE j \in 1..26 : LowerChars[j] = str[i]]
     ELSE str[i]]
Lower(str) ==
  [i \in 1..Len(str) |->
     IF \E j \in 1..26 : UpperChars[j] = str[i]
     THEN LowerChars[CHOOSE j \in 1..26 : UpperChars[j] = str[i]]
     ELSE str[i]]

\* str.strip()
RECURSIVE LStrip(_)
LStrip(str) == IF str # <<>> /\ IsSpace(str[1]) THEN LStrip(Tail(str)) ELSE str
RECURSIVE RStrip(_)
RStrip(str) == IF str # <<>> /\ IsSpace(str[Len(str)])
               THEN RStrip(SubSeq(str, 1, Len(str) - 1)) ELSE str
Strip(str) == RStrip(LStrip(str))

\* str.replace(old, new) for a non-empty old: left to right, not overlapping
StartsWith(str, pre) == Len(str) >= Len(pre) /\ SubSeq(str, 1, Len(pre)) = pre
RECURSIVE Replace(_, _, _)
Replace(str, old, new) ==
  IF str = <<>> THEN <<>>
  ELSE IF StartsWith(str, old)
       THEN new \o Replace(SubSeq(str, Len(old) + 1, Len(str)), old, new)
       ELSE <<str[1]>> \o Replace(Tail(str), old, new)

\* str.rfind(ch), 1-based; 0 when absent
RFind(str, ch) ==
  IF \E i \in 1..Len(str) : str[i] = ch
  THEN CHOOSE i \in 1..Len(str) :
         str[i] = ch /\ \A j \in (i + 1)..Len(str) : str[j] # ch
  ELSE 0

\* None: a missing key, None and "" are all falsy, and every field of a
\* trade is read as  t.get(k) or default
None == <<>>

(***************************************************************************)
(* d(x) = Decimal(str(x)) for a text x.  The constructor strips the        *)
(* whitespace around the text, drops every underscore, and reads, in       *)
(* either case of the letters,                                             *)
(*   [sign] digits [. digits] [e [sign] digits]   with a digit before or   *)
(*                                                after the point,         *)
(*   [sign] inf | [sign] infinity,                                         *)
(*   [sign] nan [digits] | [sign] snan [digits].                           *)
(* It is exact (no rounding) and raises InvalidOperation on any other      *)
(* text, and on a number outside the widest context of the library: the   *)
(* result is [ok |-> FALSE] then.                                          *)
(***************************************************************************)

\* the digits of a numeral, and the positions of a character in it
Digits(t1) == SelectSeq(t1, IsDigit)
At(t1, ch) == {i \in 1..Len(t1) : t1[i] = ch}
DotAt(t1) == At(t1, ".")
AllDigits(t1) == \A i \in 1..Len(t1) : IsDigit(t1[i])

\* the coefficient a text of digits (most significant first) denotes
CoefOf(digs) == NStrip([i \in 1..Len(digs) |-> DigitVal(digs[Len(digs) + 1 - i])])

\* the text without its underscores
NoUnderscore(text) == SelectSeq(text, LAMBDA ch : ch # "_")

\* what the constructor made, and that it raised
Made(v) == [ok |-> TRUE, v |-> v]
NotMade == [ok |-> FALSE, v |-> DZero]

\* [sign] digits : the exponent after the "e", its sign and its digits (a
\* natural number of any size)
Exp(s, n) == [ok |-> TRUE, s |-> s, n |-> n]
NoExp == [ok |-> FALSE, s |-> 1, n |-> <<>>]
Exponent(t2) ==
  IF t2 # <<>> /\ t2[1] \in {"+", "-"}
  THEN IF Tail(t2) # <<>> /\ AllDigits(Tail(t2))
       THEN Exp(IF t2[1] = "-" THEN -1 ELSE 1, CoefOf(Tail(t2)))
       ELSE NoExp
  ELSE IF t2 # <<>> /\ AllDigits(t2) THEN Exp(1, CoefOf(t2))
  ELSE NoExp

\* The constructor reads the text in the widest context of the library,
\* Emax = 999999999999999999 = MaxEmax and Etiny = -(2 * MaxEmax - 1), and
\* raises when the number does not fit it exactly: with w + 1 significant
\* digits and fr digits after the point, when  exp - fr + w > MaxEmax  or
\* exp - fr < Etiny, exp the exponent written.  The comparisons are made on
\* numbers of any size.
MaxEmax == [i \in 1..18 |-> 9]
MaxEtiny == NSub(NAdd(MaxEmax, MaxEmax), <<1>>)
ExpTooLarge(exp, fr, w) ==
  IF exp.s = 1
  THEN NCmp(NAdd(exp.n, NFromInt(w)), NAdd(MaxEmax, NFromInt(fr))) > 0
  ELSE NCmp(NFromInt(w), NAdd(NAdd(MaxEmax, exp.n), NFromInt(fr))) > 0
ExpTooSmall(exp, fr) ==
  IF exp.s = 1
  THEN NCmp(NAdd(exp.n, MaxEtiny), NFromInt(fr)) < 0
  ELSE NCmp(NAdd(exp.n, NFromInt(fr)), MaxEtiny) > 0
ExpFits(exp, fr, nd) ==
  ~ExpTooLarge(exp, fr, Max(nd, 1) - 1) /\ ~ExpTooSmall(exp, fr)

\* float() reads an exponent of more than 1100000000 as 1100000000
\* (MAX_ABS_EXP of the string conversion)
ExpSaturated(exp) ==
  IF NCmp(exp.n, NFromInt(1100000000)) > 0
  THEN Exp(exp.s, NFromInt(1100000000)) ELSE exp

\* digits [. digits]  with at least one digit, under the sign s and the
\* exponent exp; fr is the number of digits after the point, lim tells
\* that the bounds of the Decimal constructor apply
Fraction(t1) ==
  IF DotAt(t1) = {} THEN 0 ELSE Len(t1) - (CHOOSE i \in DotAt(t1) : TRUE)
Mantissa(s, t1, exp, lim) ==
  IF /\ Cardinality(DotAt(t1)) <= 1
     /\ Digits(t1) # <<>>
     /\ \A i \in 1..Len(t1) : IsDigit(t1[i]) \/ t1[i] = "."
     /\ exp.ok
  THEN IF lim /\ ~ExpFits(exp, Fraction(t1), Len(CoefOf(Digits(t1))))
       THEN NotMade
       ELSE Made(DCanon(s, CoefOf(Digits(t1)),
                        exp.s * NToInt(exp.n) - Fraction(t1)))
  ELSE NotMade

\* a numeral with at most one "e", at position i (0: none)
Numeral(s, t1, i, lim) ==
  IF i = 0 THEN Mantissa(s, t1, Exp(1, <<>>), lim)
  ELSE IF lim
  THEN Mantissa(s, SubSeq(t1, 1, i - 1),
                Exponent(SubSeq(t1, i + 1, Len(t1))), lim)
  ELSE Mantissa(s, SubSeq(t1, 1, i - 1),
                ExpSaturated(Exponent(SubSeq(t1, i + 1, Len(t1)))), lim)

\* the text after the sign, in lower case: a special value or a numeral
Special(s, t1, lim) ==
  IF t1 = <<"i", "n", "f">> \/ t1 = <<"i", "n", "f", "i", "n", "i", "t", "y">>
  THEN Made(DInf(s))
  ELSE IF StartsWith(t1, <<"n", "a", "n">>)
  THEN IF AllDigits(SubSeq(t1, 4, Len(t1)))
       THEN Made(DNaN("NaN", s, CoefOf(SubSeq(t1, 4, Len(t1)))))
       ELSE NotMade
  ELSE IF StartsWith(t1, <<"s", "n", "a", "n">>)
  THEN IF AllDigits(SubSeq(t1, 5, Len(t1)))
       THEN Made(DNaN("sNaN", s, CoefOf(SubSeq(t1, 5, Len(t1)))))
       ELSE NotMade
  ELSE IF Cardinality(At(t1, "e")) > 1 THEN NotMade
  ELSE IF At(t1, "e") = {} THEN Numeral(s, t1, 0, lim)
  ELSE Numeral(s, t1, CHOOSE i \in At(t1, "e") : TRUE, lim)
ParseUnsigned(s, t1) == Special(s, t1, TRUE)

\* [sign] and the rest
ParseSigned(t0) ==
  IF t0 # <<>> /\ t0[1] \in {"+", "-"}
  THEN ParseUnsigned(IF t0[1] = "-" THEN -1 ELSE 1, Tail(t0))
  ELSE ParseUnsigned(1, t0)

ParseDecimal(text) == ParseSigned(Lower(NoUnderscore(Strip(text))))

\* def d(x): return Decimal(str(x))     (x a text)
d(x) == ParseDecimal(x)

\* def safe_div(n, dnm): return (n / dnm) if dnm != 0 else Decimal("0")
safe_div(n, dnm) ==
  IF Raised(n) THEN n
  ELSE IF Raised(dnm) THEN dnm
  ELSE IF dnm.k = "sNaN" THEN DRaise("InvalidOperation")
  ELSE IF ~DEq(dnm, DZero) THEN DDiv(n, dnm)
  ELSE DZero

\* p.replace("/", "").upper().replace("XBT", "BTC")
NormPair(pair) ==
  Replace(Upper(SelectSeq(pair, LAMBDA ch : ch # "/")),
          <<"X", "B", "T">>, <<"B", "T", "C">>)

\* for qlen in (4, 3): if len(p) > qlen: return p[:-qlen], p[-qlen:]
SplitQuote(p) ==
  IF Len(p) > 4
  THEN <<SubSeq(p, 1, Len(p) - 4), SubSeq(p, Len(p) - 3, Len(p))>>
  ELSE IF Len(p) > 3
  THEN <<SubSeq(p, 1, Len(p) - 3), SubSeq(p, Len(p) - 2, Len(p))>>
  ELSE <<p, <<>>>>

\* the legacy "BASEZQUOTE" format, split at the last "Z" (position i)
SplitLegacy(p, left, right) ==
  IF left # <<>> /\ right # <<>> /\ 3 <= Len(right) /\ Len(right) <= 4
  THEN <<IF left[1] = "X" /\ Len(left) >= 2 THEN Tail(left) ELSE left, right>>
  ELSE SplitQuote(p)
SplitAt(p, i) ==
  IF i > 0 /\ Len(p) >= 7
  THEN SplitLegacy(p, SubSeq(p, 1, i - 1), SubSeq(p, i + 1, Len(p)))
  ELSE SplitQuote(p)
SplitPair(p) == SplitAt(p, RFind(p, "Z"))

\* def parse_pair(pair)
parse_pair(pair) ==
  IF pair = <<>> THEN <<<<>>, <<>>>> ELSE SplitPair(NormPair(pair))

(***************************************************************************)
(* float(x) for a text x: the whitespace around it stripped,               *)
(*   [sign] digits [. digits] [e [sign] digits]  with a digit before or    *)
(*                                               after the point, or       *)
(*   [sign] inf | [sign] infinity | [sign] nan,                            *)
(* in either case of the letters, an underscore allowed between two        *)
(* digits; ValueError (ok = FALSE) on any other text.  A float is held as  *)
(* the exact decimal value of the double nearest to the number of the      *)
(* text (round-half-even on 53 bits), as "Infinity" or as "NaN".           *)
(***************************************************************************)
\* every underscore stands between two digits
GroupedDigits(t0) ==
  \A i \in At(t0, "_") :
    /\ 1 < i /\ i < Len(t0)
    /\ IsDigit(t0[i - 1])
    /\ IsDigit(t0[i + 1])

\* the text after the sign, in lower case
FloatUnsigned(s, t1) ==
  IF t1 = <<"n", "a", "n">> THEN Made(DNaN("NaN", s, <<>>))
  ELSE IF StartsWith(t1, <<"n", "a", "n">>) \/ StartsWith(t1, <<"s", "n", "a", "n">>)
  THEN NotMade
  ELSE Special(s, t1, FALSE)

FloatSigned(t0) ==
  IF t0 # <<>> /\ t0[1] \in {"+", "-"}
  THEN FloatUnsigned(IF t0[1] = "-" THEN -1 ELSE 1, Tail(t0))
  ELSE FloatUnsigned(1, t0)

\* 2^k as a Decimal, k any integer
Pow2(k) ==
  IF k >= 0 THEN DNum(1, NPow(<<2>>, k), 0) ELSE DNum(1, NPow(<<5>>, -k), k)

\* the range of a double: a number of at least 2^1024 - 2^970, half an ulp
\* above the largest double, is inf; one of at most 2^-1075, half the
\* smallest double, is 0
FloatOver(c, e) ==
  DCmp(DNum(1, c, e),
       DNum(1, NMul(NPow(<<2>>, 970), NSub(NPow(<<2>>, 54), <<1>>)), 0)) >= 0
FloatUnder(c, e) == DCmp(DNum(1, c, e), Pow2(-1075)) <= 0

\* a lower bound of floor(log2(x)) for x >= 10^adj, at most 4 below it for
\* x < 10^(adj + 1): log2(10) = 3.32192809...
Log2Floor(adj) ==
  IF adj >= 0 THEN (adj * 3321928) \div 1000000
  ELSE -((-adj * 3321929 + 999999) \div 1000000)

\* c * 10^e / 2^q as the fraction a / b of two natural numbers
Scaled(c, e, q) ==
  [a |-> NShift(NMul(c, NPow(<<2>>, Max(-q, 0))), Max(e, 0)),
   b |-> NShift(NPow(<<2>>, Max(q, 0)), Max(-e, 0))]

\* the bits of n above the 53 of a double's significand
Bits53(n) == Cardinality({j \in 0..8 : NCmp(n, NPow(<<2>>, 53 + j)) >= 0})

\* m or m + 1 as the part dropped is below (-1), at (0) or above (1) the
\* half: round-half-even
Nearest(m, half) ==
  IF half > 0 \/ (half = 0 /\ Dig(m, 1) % 2 = 1) THEN NAdd(m, <<1>>) ELSE m
\* the part dropped with the low bits of the quotient, r the remainder of
\* the division: low the quotient's divmod by 2^extra
NearestOf(low, r, extra) ==
  Nearest(low.q,
          IF NToInt(low.r) > 2^(extra - 1) THEN 1
          ELSE IF NToInt(low.r) < 2^(extra - 1) THEN -1
          ELSE IF r # <<>> THEN 1 ELSE 0)
\* the integer nearest to (qr.q + qr.r / b) / 2^extra
HalfEven(qr, b, extra) ==
  IF extra = 0 THEN Nearest(qr.q, NCmp(NAdd(qr.r, qr.r), b))
  ELSE NearestOf(NDivMod(qr.q, NFromInt(2^extra)), qr.r, extra)

\* s * m * 2^q as a Decimal
Times2(s, m, q) ==
  IF q >= 0 THEN DCanon(s, NMul(m, NPow(<<2>>, q)), 0)
  ELSE DCanon(s, NMul(m, NPow(<<5>>, -q)), q)

\* the double nearest to s * c * 10^e, a number within the range: q0 is
\* the exponent of the last bit of the significand by the lower bound of
\* log2, not below -1074 (the subnormal numbers); the quotient of the
\* number by 2^q0 has the 53 bits and at most extra more
RoundedBits(s, q0, b, qr, extra) ==
  Times2(s, HalfEven(qr, b, extra), q0 + extra)
RoundedQuot(s, q0, b, qr) == RoundedBits(s, q0, b, qr, Bits53(qr.q))
RoundedOf(s, q0, frac) == RoundedQuot(s, q0, frac.b, NDivMod(frac.a, frac.b))
Rounded(s, c, e, q0) == RoundedOf(s, q0, Scaled(c, e, q0))

\* the double of s * c * 10^e (c not 0), adj the place of its first digit
binary64(s, c, e, adj) ==
  IF adj > 308 THEN DInf(s)
  ELSE IF adj < -324 THEN DNum(s, <<>>, 0)
  ELSE IF adj = 308 /\ FloatOver(c, e) THEN DInf(s)
  ELSE IF adj = -324 /\ FloatUnder(c, e) THEN DNum(s, <<>>, 0)
  ELSE Rounded(s, c, e, Max(Log2Floor(adj) - 52, -1074))

double(made) ==
  IF ~made.ok \/ ~IsFinite(made.v) \/ IsZero(made.v) THEN made
  ELSE Made(binary64(made.v.s, made.v.c, made.v.e,
                     Len(made.v.c) + made.v.e - 1))

float(x) ==
  IF GroupedDigits(Strip(x))
  THEN double(FloatSigned(Lower(NoUnderscore(Strip(x)))))
  ELSE NotMade

\* max(a, b) of two floats: b only when b > a, which a nan never is
FGt(b, a) == ~IsNaN(a) /\ ~IsNaN(b) /\ DCmp(b, a) > 0
max(a, b) == IF FGt(b, a) THEN b ELSE a

\* x or dflt
Or(x, dflt) == IF x = None THEN dflt ELSE x

(***************************************************************************)
(* Configuration.                                                          *)
(***************************************************************************)
\* INCLUDE_FEES_IN_COST = True
INCLUDE_FEES_IN_COST == TRUE
\* USE_MIDPRICE = False
USE_MIDPRICE == FALSE
\* MAX_RETRIES = 8
MAX_RETRIES == 8

(***************************************************************************)
(* Bounds and inputs of the model.                                         *)
(***************************************************************************)
\* the longest batch of trade records
MaxTrades == 3
\* the most trades on a page of TradesHistory, and the largest count it
\* reports
MaxPage == 2
MaxCount == 3

XXBTZUSD == <<"X", "X", "B", "T", "Z", "U", "S", "D">>
ETHUSDT  == <<"e", "t", "h", "/", "u", "s", "d", "t">>
BTC  == <<"B", "T", "C">>
ETH  == <<"E", "T", "H">>
USD  == <<"U", "S", "D">>
USDT == <<"U", "S", "D", "T">>
Buy  == <<"b", "u", "y">>
BUY  == <<"B", "U", "Y">>
Sell == <<"s", "e", "l", "l">>

Trade(pair, type, vol, price, cost, fee, time) ==
  [pair |-> pair, type |-> type, vol |-> vol, price |-> price, cost |-> cost,
   fee |-> fee, time |-> time]

\* The trade records a batch is drawn from: the dicts of TradesHistory, every
\* value a text (None: the key is absent).
\* B1, B2 and S1: two lots and a sell that splits the second; the numbers
\* written with an exponent, an underscore and whitespace around them
B1 == Trade(XXBTZUSD, Buy,  <<"2">>, <<"1", "e", "1">>, None, None, <<"\t", "1">>)
B2 == Trade(XXBTZUSD, Buy,  <<"3">>, <<"2", "0">>, <<"6", "_", "0">>, <<"0">>, <<"2">>)
S1 == Trade(XXBTZUSD, Sell, <<"3">>, <<"3", "0">>, <<" ", "9", "0", "\n">>, <<"0">>, <<"3">>)
\* another pair; a unit cost 10 / 3 that 28 digits do not hold
E1 == Trade(ETHUSDT,  BUY,  <<"3">>, <<"3", ".", "3", "3">>, <<"1", "0">>, None, <<"2">>)
\* volume 0 with a fee
Z1 == Trade(XXBTZUSD, Buy,  <<"0">>, <<"1", "0">>, None, <<"1">>, <<"6">>)
\* a volume that is no number
X1 == Trade(XXBTZUSD, Buy,  <<"1", "x">>, <<"1", "0">>, None, None, <<"7">>)
\* a volume NaN, which Decimal reads and  vol > 0  raises on
N1 == Trade(XXBTZUSD, Buy,  <<"N", "a", "N">>, <<"1", "0">>, <<"1">>, None, <<"8">>)

Trades == {B1, B2, S1, E1, Z1, X1, N1}

\* The trade records of the runs that go on to the valuation.
XETHZUSD == <<"X", "E", "T", "H", "Z", "U", "S", "D">>
ETHUSD   == <<"E", "T", "H", "U", "S", "D">>
ETH_USDT == <<"E", "T", "H", "/", "U", "S", "D", "T">>
\* F1 and F2: a buy and a sell with fees
F1 == Trade(XXBTZUSD, Buy,  <<"1", ".", "0">>, <<"9", "0", "0", "0">>, None, <<"9">>, <<"1">>)
F2 == Trade(XXBTZUSD, Sell, <<"0", ".", "4">>, <<"1", "0", "0", "0", "0">>, None, <<"4">>, <<"2">>)
\* the pair ETH/USD and the pair ETH/USDT under their identifier forms
P1 == Trade(XETHZUSD, Buy,  <<"1">>, <<"1", "0", "0">>, None, None, <<"3">>)
P2 == Trade(ETHUSD,   Buy,  <<"2">>, <<"1", "1", "0">>, None, None, <<"4">>)
P3 == Trade(ETH_USDT, Buy,  <<"3">>, <<"3", ".", "3", "3">>, <<"1", "0">>, None, <<"5">>)

RowTrades == {F1, F2, P1, P2, P3}
AllTrades == Trades \cup RowTrades

\* The responses of the Ticker endpoint: error, a list of messages; result,
\* per pair name the last trade "c", the best bid "b" and the best ask "a",
\* each a list of texts, Listed(list), or Absent when the key is missing.
Listed(list) == [has |-> TRUE, list |-> list]
Absent == [has |-> FALSE, list |-> <<>>]
Quote(c, b, a) == [c |-> c, b |-> b, a |-> a]
Ticker(error, result) == [error |-> error, result |-> result]
TickerError == Ticker(<<<<"E", "Q", "u", "e", "r", "y", ":", "U", "n", "k", "n", "o", "w", "n", " ", "a", "s", "s", "e", "t", " ", "p", "a", "i", "r">>>>, <<>>)
TickerBoth ==
  Ticker(<<>>, XXBTZUSD :> Quote(Listed(<<<<"9", "5", "0", "0">>>>), Listed(<<<<"9", "4", "9", "9">>>>), Listed(<<<<"9", "5", "0", "1">>>>))
               @@ XETHZUSD :> Quote(Listed(<<<<"1", "2", "0", ".", "5">>>>), Listed(<<<<"1", "2", "0">>>>), Listed(<<<<"1", "2", "1">>>>)))
TickerZero == Ticker(<<>>, XXBTZUSD :> Quote(Listed(<<<<"0">>>>), Listed(<<<<"0">>>>), Listed(<<<<"0">>>>)))
TickerBare == Ticker(<<>>, XXBTZUSD :> Quote(Absent, Absent, Absent))
TickerOther == Ticker(<<>>, ETHUSD :> Quote(Listed(<<<<"1", "1", "0">>>>), Listed(<<<<"1", "0", "9">>>>), Listed(<<<<"1", "1", "1">>>>)))
\* a last trade that is no number
TickerText == Ticker(<<>>, XXBTZUSD :> Quote(Listed(<<<<"x">>>>), Listed(<<<<"0">>>>), Listed(<<<<"0">>>>)))
\* a last trade with no entry: the key is there, the list is empty
TickerEmpty == Ticker(<<>>, XXBTZUSD :> Quote(Listed(<<>>), Absent, Absent))
\* the responses of the runs of Spec, and of the runs of RowsSpec
Tickers == {TickerBoth}
RowTickers == {TickerError, TickerBoth, TickerZero, TickerBare, TickerOther,
               TickerText, TickerEmpty}

\* ONLY_THESE_QUOTES: None, or a set of quotes
QuoteFilters == {{}, {USD}}

\* what the operator types at "Your choice: "
\* sys.get_int_max_str_digits(): the most digits int() converts
MaxStrDigits == 4300
\* a valid index and then a piece of more digits than int() converts
TooLong == <<"1", ",">> \o [i \in 1..(MaxStrDigits + 1) |-> "7"]
Choices == {<<"A", "l", "l", " ">>, <<"1", ",", "1">>,
            <<" ", "2", ",", "1", " ", ",", "3">>, <<"x">>, TooLong}

\* the same for the runs of RowsSpec
RowChoices == {<<"1">>, <<"x">>}

\* what the operator types as a target remaining volume
Targets == {<<"0">>, <<"2", ".", "5">>, <<"-", "1">>, <<"x">>, <<"n", "a", "n">>}
RowTargets == {<<"0", ".", "5">>, <<"-", "1">>, <<"x">>}

(***************************************************************************)
(* State.                                                                  *)
(***************************************************************************)
VARIABLES
  pc,                 \* where main() is: "aggregate", "ask", "menu", "prompt", "rows"
  ONLY_THESE_QUOTES,  \* the configured quote filter ({} is None)
  agg,                \* the defaultdict of aggregate_trades: (base, quote) -> rec
  batch,              \* the records of the batch consumed so far, in order
  indices,            \* maybe_adjust_balances: the selected items still to adjust
  report,             \* what the last step of maybe_adjust_balances printed
  last,               \* history: the operation of the last step, its key and target
  created,            \* history: per key, the lots appended by buys, as appended
  shrunk,             \* history: per key, the volume the shrinks were to remove
  oversold,           \* history: per key, the sell volume in excess of the lots
  prices,             \* build_rows_with_prices: prices_by_pair
  rows,               \* build_rows_with_prices: the rows returned
  resp,               \* kraken_private_with_retry: the last response
  tries,              \* kraken_private_with_retry: tries
  queries,            \* history: the queries the current call has issued
  ofs,                \* fetch_all_trades: ofs
  fetched             \* fetch_all_trades: trades

\* the variables of the fetch and of the valuation
io == <<prices, rows, resp, tries, queries, ofs, fetched>>

vars == <<pc, ONLY_THESE_QUOTES, agg, batch, indices, report, last, created,
          shrunk, oversold, io>>

\* no response yet
NoResponse == [kind |-> "none"]

\* The responses of the private endpoint TradesHistory: a dict with "error"
\* (a list of messages, or a text; None when absent) and "result" (None
\* when absent) holding "trades" and "count", or a value that is no dict.
ErrList(items) == [list |-> TRUE, items |-> items]
ErrText(text) == [list |-> FALSE, text |-> text]
Dict(error, result) == [dict |-> TRUE, error |-> error, result |-> result]
NotADict == [dict |-> FALSE]
PageOf(n) == [i \in 1..n |-> B1]
Pages ==
  {Dict(ErrList(<<>>), [trades |-> PageOf(n), count |-> c]) :
     n \in 0..MaxPage, c \in 0..MaxCount}
RateLimited == Dict(ErrList(<<<<"E", "A", "P", "I", ":", "R", "a", "t", "e", " ", "l", "i", "m", "i", "t", " ", "e", "x", "c", "e", "e", "d", "e", "d">>>>), None)
OrdersLimit == Dict(ErrList(<<<<"E", "S", "e", "r", "v", "i", "c", "e", ":", "B", "u", "s", "y">>,
                              <<"E", "O", "r", "d", "e", "r", ":", "O", "r", "d", "e", "r", "s", " ", "l", "i", "m", "i", "t", " ", "e", "x", "c", "e", "e", "d", "e", "d">>>>), None)
RateText == Dict(ErrText(<<"R", "a", "t", "e", " ", "L", "i", "m", "i", "t">>), None)
Lockout == Dict(ErrList(<<<<"E", "G", "e", "n", "e", "r", "a", "l", ":", "T", "e", "m", "p", "o", "r", "a", "r", "y", " ", "l", "o", "c", "k", "o", "u", "t">>>>), None)
Bare == Dict(None, None)
Responses ==
  Pages \cup {RateLimited, OrdersLimit, RateText, Lockout, Bare, NotADict}

\* the value the defaultdict's factory makes
NewRec ==
  [buy_vol |-> DZero, buy_cost |-> DZero, sell_vol |-> DZero,
   sell_proceeds |-> DZero, fees |-> DZero, lots |-> <<>>,
   realized_pnl |-> DZero, last_ts |-> DZero, pair_name |-> None]

\* f with f[k] = v, k added to its domain when missing
Put(f, k, v) == [x \in DOMAIN f \cup {k} |-> IF x = k THEN v ELSE f[x]]

\* a history total: 0 for a key never recorded
Hist(f, key) == IF key \in DOMAIN f THEN f[key] ELSE DZero

NoKey == <<None, None>>
Op(op, key, target) == [op |-> op, key |-> key, target |-> target]

\* the outcome of a handler: ok with what it leaves, or a raise with the
\* state it leaves behind
Done(v) == [ok |-> TRUE, v |-> v]
Fail(v) == [ok |-> FALSE, v |-> v]

\* the try block of aggregate_trades: ok is FALSE when a conversion raises
TradeFields(t, vol, price, cost, fee, ts) ==
  [ok        |-> vol.ok /\ price.ok /\ cost.ok /\ fee.ok /\ ts.ok,
   pair_name |-> Strip(Or(t.pair, <<>>)),
   typ       |-> Lower(Or(t.type, <<>>)),
   vol       |-> vol.v,
   price     |-> price.v,
   cost      |-> cost.v,
   fee       |-> fee.v,
   ts        |-> ts.v]
\* d(t.get("cost") or (vol * price)): the product may raise, and
\* Decimal(str(x)) of a Decimal x is x
Product(x) == [ok |-> ~Raised(x), v |-> x]
TradeCost(t, vol, price) ==
  TradeFields(t, vol, price,
              IF t.cost = None THEN Product(DMul(vol.v, price.v))
              ELSE d(t.cost),
              d(Or(t.fee, <<"0">>)), float(Or(t.time, <<"0">>)))
ParseTrade(t) == TradeCost(t, d(Or(t.vol, <<"0">>)), d(Or(t.price, <<"0">>)))

\* safe_div(total, vol) if vol > 0 else Decimal("0")
per_unit(total, vol) ==
  IF CmpRaises(vol, DZero) THEN CmpRaise(vol, DZero)
  ELSE IF DGt(vol, DZero) THEN safe_div(total, vol)
  ELSE DZero

\* match_head with the fault of leaving the old total_cost on a lot that a
\* sell consumed a part of
match_head_stale(lots, lot_vol) ==
  IF DLe(lot_vol, DZero) THEN Tail(lots)
  ELSE <<<<lot_vol, lots[1][2], lots[1][3]>>>> \o Tail(lots)

\* match_head with the fault of popping the head lot whenever it is used
match_head_pop(lots, lot_vol) == Tail(lots)

\* the head lot after a sell took from it, lot_vol left:
\* popleft(), or [lot_vol, lot_px, lot_vol * lot_px]
match_head(lots, lot_vol) ==
  IF DLe(lot_vol, DZero) THEN Tail(lots)
  ELSE <<<<lot_vol, lots[1][2], DMul(lot_vol, lots[1][2])>>>> \o Tail(lots)

\* fifo_match with the fault of matching against the youngest lots first
RECURSIVE lifo_match(_, _, _, _)
lifo_match(lots, remaining, realized, per_unit_proceeds) ==
  IF DGt(remaining, DZero) /\ lots # <<>>
  THEN LET n    == Len(lots)
           use  == DMin(lots[n][1], remaining)
           left == DSub(lots[n][1], use)
       IN  lifo_match(
             IF DLe(left, DZero) THEN SubSeq(lots, 1, n - 1)
             ELSE SubSeq(lots, 1, n - 1)
                    \o <<<<left, lots[n][2], DMul(left, lots[n][2])>>>>,
             DSub(remaining, use),
             DAdd(realized,
                  DSub(DMul(use, per_unit_proceeds), DMul(use, lots[n][2]))),
             per_unit_proceeds)
  ELSE [lots |-> lots, realized |-> realized, remaining |-> remaining]

\* the while loop of a sell: match against the oldest lots.  A raise in the
\* loop is the value of realized, of remaining or of the head lot, and the
\* loop is left
RECURSIVE fifo_match(_, _, _, _)
RECURSIVE fifo_use(_, _, _, _, _)
RECURSIVE fifo_take(_, _, _, _, _)
fifo_match(lots, remaining, realized, per_unit_proceeds) ==
  IF CmpRaises(remaining, DZero)
  THEN [lots |-> lots, realized |-> CmpRaise(remaining, DZero),
        remaining |-> remaining]
  ELSE IF DGt(remaining, DZero) /\ lots # <<>>
  THEN fifo_use(lots, remaining, realized, per_unit_proceeds,
                DMin(lots[1][1], remaining))
  ELSE [lots |-> lots, realized |-> realized, remaining |-> remaining]
\* one pass of the loop, use = min(lot_vol, remaining)
fifo_use(lots, remaining, realized, per_unit_proceeds, use) ==
  fifo_take(lots, DSub(remaining, use),
            DAdd(realized,
                 DSub(DMul(use, per_unit_proceeds), DMul(use, lots[1][2]))),
            per_unit_proceeds, DSub(lots[1][1], use))
\* lot_vol -= use; remaining -= use; if lot_vol <= 0: ... else: ...
fifo_take(lots, remaining, realized, per_unit_proceeds, lot_vol) ==
  IF Raised(realized) \/ Raised(remaining)
  THEN [lots |-> lots, realized |-> CmpRaise(realized, remaining),
        remaining |-> remaining]
  ELSE IF CmpRaises(lot_vol, DZero)
  THEN [lots |-> lots, realized |-> CmpRaise(lot_vol, DZero),
        remaining |-> remaining]
  ELSE fifo_match(match_head(lots, lot_vol), remaining, realized,
                  per_unit_proceeds)

\* the youngest lot with a buy of vol for buy_cost merged into it, at the
\* average unit cost of the two
merged_lot(lot, vol, buy_cost) ==
  <<DAdd(lot[1], vol),
    per_unit(DAdd(lot[3], buy_cost), DAdd(lot[1], vol)),
    DAdd(lot[3], buy_cost)>>

\* buy_lot with the fault of average-cost accounting: a buy into a ledger
\* that holds lots is merged into the youngest of them
buy_lot_merged(rec, vol, fee, buy_cost) ==
  [rec EXCEPT !.buy_vol  = DAdd(@, vol),
              !.buy_cost = DAdd(@, buy_cost),
              !.fees     = DAdd(@, fee),
              !.lots     =
                 IF @ = <<>>
                 THEN <<<<vol, per_unit(buy_cost, vol), buy_cost>>>>
                 ELSE SubSeq(@, 1, Len(@) - 1)
                      \o <<merged_lot(@[Len(@)], vol, buy_cost)>>]

\* the buy branch of aggregate_trades, buy_cost = cost + fee
buy_lot(rec, vol, fee, buy_cost) ==
  [rec EXCEPT !.buy_vol  = DAdd(@, vol),
              !.buy_cost = DAdd(@, buy_cost),
              !.fees     = DAdd(@, fee),
              !.lots     = Append(@, <<vol, per_unit(buy_cost, vol), buy_cost>>)]

\* apply_buy with the fault of leaving the fee out of the cost of the lot
apply_buy_gross(rec, vol, cost, fee) == buy_lot(rec, vol, fee, cost)

\* the buy branch of aggregate_trades
apply_buy(rec, vol, cost, fee) ==
  buy_lot(rec, vol, fee,
          DAdd(cost, IF INCLUDE_FEES_IN_COST THEN fee ELSE DZero))

\* sell_matched with the fault of booking the volume that found no lot as
\* sold at no cost
sell_matched_excess(rec, vol, fee, proceeds, m) ==
  [rec EXCEPT !.sell_vol      = DAdd(@, vol),
              !.sell_proceeds = DAdd(@, proceeds),
              !.fees          = DAdd(@, fee),
              !.lots          = m.lots,
              !.realized_pnl  =
                 DAdd(@, DAdd(m.realized,
                              DMul(m.remaining, safe_div(proceeds, vol))))]

\* the sell branch of aggregate_trades, proceeds = cost - fee, m the result
\* of the FIFO loop
sell_matched(rec, vol, fee, proceeds, m) ==
  [rec EXCEPT !.sell_vol      = DAdd(@, vol),
              !.sell_proceeds = DAdd(@, proceeds),
              !.fees          = DAdd(@, fee),
              !.lots          = m.lots,
              !.realized_pnl  = DAdd(@, m.realized)]
\* the loop is reached when per_unit_proceeds is made without a raise
sell_priced(rec, vol, fee, proceeds, per_unit_proceeds) ==
  sell_matched(rec, vol, fee, proceeds,
               IF Raised(per_unit_proceeds)
               THEN [lots |-> rec.lots, realized |-> per_unit_proceeds,
                     remaining |-> vol]
               ELSE fifo_match(rec.lots, vol, DZero, per_unit_proceeds))
sell_lots(rec, vol, fee, proceeds) ==
  sell_priced(rec, vol, fee, proceeds, per_unit(proceeds, vol))

\* apply_sell with the fault of netting the sold volume out of buy_vol
apply_sell_netted(rec, vol, cost, fee) ==
  [sell_lots(rec, vol, fee,
             DSub(cost, IF INCLUDE_FEES_IN_COST THEN fee ELSE DZero))
     EXCEPT !.buy_vol = DSub(@, vol)]

\* the sell branch of aggregate_trades
apply_sell(rec, vol, cost, fee) ==
  sell_lots(rec, vol, fee,
            DSub(cost, IF INCLUDE_FEES_IN_COST THEN fee ELSE DZero))

\* a statement of the buy or of the sell branch raised: a Decimal of the
\* ledger, or of one of its lots, is a raise
Crashed(rec) ==
  \/ \E x \in {rec.buy_vol, rec.buy_cost, rec.sell_vol, rec.sell_proceeds,
               rec.fees, rec.realized_pnl} : Raised(x)
  \/ \E i \in 1..Len(rec.lots) : \E j \in 1..3 : Raised(rec.lots[i][j])

\* def total_remaining(rec): (remaining_volume, remaining_cost), or the
\* raise of either sum in both places
sums(rem_vol, rem_cost) ==
  IF Raised(rem_vol) THEN <<rem_vol, rem_vol>>
  ELSE IF Raised(rem_cost) THEN <<rem_cost, rem_cost>>
  ELSE <<rem_vol, rem_cost>>
total_remaining(rec) ==
  sums(DSum([i \in 1..Len(rec.lots) |-> rec.lots[i][1]]),
       DSum([i \in 1..Len(rec.lots) |-> rec.lots[i][3]]))

\* shrink_head with the fault of leaving the old total_cost on a lot that is
\* partly removed
shrink_head_stale(lots, lot_vol) ==
  IF DLe(lot_vol, DZero) THEN Tail(lots)
  ELSE <<<<lot_vol, lots[1][2], lots[1][3]>>>> \o Tail(lots)

\* shrink_head with the fault of popping the head lot whenever it is used
shrink_head_pop(lots, lot_vol) == Tail(lots)

\* the head lot after a shrink took from it, lot_vol left
shrink_head(lots, lot_vol) ==
  IF DLe(lot_vol, DZero) THEN Tail(lots)
  ELSE <<<<lot_vol, lots[1][2], DMul(lot_vol, lots[1][2])>>>> \o Tail(lots)

\* the while loop of shrink_lots_fifo_to_target: the lots it leaves, when it
\* ends and when a statement of it raises
RECURSIVE shrink_loop(_, _)
RECURSIVE shrink_use(_, _, _)
RECURSIVE shrink_take(_, _, _)
shrink_loop(lots, to_reduce) ==
  IF CmpRaises(to_reduce, DZero) THEN Fail(lots)
  ELSE IF DGt(to_reduce, DZero) /\ lots # <<>>
  THEN shrink_use(lots, to_reduce, DMin(lots[1][1], to_reduce))
  ELSE Done(lots)
\* one pass of the loop, use = min(lot_vol, to_reduce)
shrink_use(lots, to_reduce, use) ==
  IF Raised(use) THEN Fail(lots)
  ELSE shrink_take(lots, DSub(lots[1][1], use), DSub(to_reduce, use))
\* lot_vol -= use; to_reduce -= use; if lot_vol <= 0: popleft(); else the
\* lot gets lot_vol and then lot_vol * lot_px
shrink_take(lots, lot_vol, to_reduce) ==
  IF Raised(lot_vol) \/ Raised(to_reduce) \/ CmpRaises(lot_vol, DZero)
  THEN Fail(lots)
  ELSE IF DGt(lot_vol, DZero) /\ Raised(DMul(lot_vol, lots[1][2]))
  THEN Fail(<<<<lot_vol, lots[1][2], lots[1][3]>>>> \o Tail(lots))
  ELSE shrink_loop(shrink_head(lots, lot_vol), to_reduce)

\* the ledger with the lots the loop leaves
shrunk_to(rec, o) == [ok |-> o.ok, v |-> [rec EXCEPT !.lots = o.v]]

\* shrink_from with the fault of booking the volume removed as sold
shrink_from_sold(rec, target_vol, current_vol) ==
  IF DGe(target_vol, current_vol) THEN Done(rec)
  ELSE Done([rec EXCEPT !.lots = shrink_loop(@, DSub(current_vol, target_vol)).v,
                        !.sell_vol = DAdd(@, DSub(current_vol, target_vol))])

\* shrink_from with the fault of setting the balance to a larger target too
shrink_from_topup(rec, target_vol, current_vol) ==
  IF target_vol = current_vol THEN Done(rec)
  ELSE IF DGt(target_vol, current_vol)
  THEN Done([rec EXCEPT !.lots = Append(@, <<DSub(target_vol, current_vol),
                                             DZero, DZero>>)])
  ELSE shrunk_to(rec, shrink_loop(rec.lots, DSub(current_vol, target_vol)))

\* def shrink_lots_fifo_to_target(rec, target_vol): the ledger it leaves,
\* when it returns and when it raises
shrink_from(rec, target_vol, current_vol) ==
  IF CmpRaises(target_vol, current_vol) THEN Fail(rec)
  ELSE IF DGe(target_vol, current_vol) THEN Done(rec)
  ELSE shrunk_to(rec, shrink_loop(rec.lots, DSub(current_vol, target_vol)))
shrink_lots_fifo_to_target(rec, target_vol) ==
  shrink_from(rec, target_vol, total_remaining(rec)[1])

\* build_rows_with_prices: the averages of a row
avg_buy(r) == per_unit(r.buy_cost, r.buy_vol)
avg_sell(r) == per_unit(r.sell_proceeds, r.sell_vol)
remaining_avg(remaining) == per_unit(remaining[2], remaining[1])
remaining_avg_buy(r) == remaining_avg(total_remaining(r))

\* every record as the try block reads it, and its (base, quote)
Parsed == [t \in AllTrades |-> ParseTrade(t)]
KeyOf  == [t \in AllTrades |-> parse_pair(Strip(Or(t.pair, <<>>)))]

\* every text of Targets and RowTargets as  d(input(...).strip())  reads it
Target == [text \in Targets \cup RowTargets |-> d(Strip(text))]

CreatedOf(key) == IF key \in DOMAIN created THEN created[key] ELSE <<>>

(***************************************************************************)
(* main(): aggregate_trades over the batch, record by record.              *)
(***************************************************************************)
\* every variable of main() before its first step
Fresh ==
  /\ agg = <<>>
  /\ batch = <<>>
  /\ indices = <<>>
  /\ report = "none"
  /\ last = Op("init", NoKey, DZero)
  /\ created = <<>>
  /\ shrunk = <<>>
  /\ oversold = <<>>
  /\ prices = <<>>
  /\ rows = <<>>
  /\ resp = NoResponse
  /\ tries = 0
  /\ queries = 0
  /\ ofs = 0
  /\ fetched = <<>>

\* main() about to call aggregate_trades, under either quote filter
Init ==
  /\ pc = "aggregate"
  /\ ONLY_THESE_QUOTES \in QuoteFilters
  /\ Fresh

\* if ONLY_THESE_QUOTES and quote not in ONLY_THESE_QUOTES
Filtered(key, only) == only # {} /\ key[2] \notin only

\* agg[key] of the defaultdict: the ledger, made on first access
Ledger(book, key) == IF key \in DOMAIN book THEN book[key] ELSE NewRec

\* rec["last_ts"] = max(rec["last_ts"], ts); pair_name set when empty
touch(rec, p) ==
  [rec EXCEPT !.last_ts   = max(@, p.ts),
              !.pair_name = IF @ = None THEN p.pair_name ELSE @]

\* if typ == "buy": ... elif typ == "sell": ...
route(rec, p) ==
  IF p.typ = Buy THEN apply_buy(rec, p.vol, p.cost, p.fee)
  ELSE IF p.typ = Sell THEN apply_sell(rec, p.vol, p.cost, p.fee)
  ELSE rec

\* every ledger of the book holding the one deque of lots of the ledger of
\* key
shared_lots(book, key) ==
  [k \in DOMAIN book |-> [book[k] EXCEPT !.lots = book[key].lots]]

\* apply_record with the fault of a defaultdict factory that hands every
\* ledger the same deque of lots
apply_record_shared(book, p, key) ==
  shared_lots(Put(book, key, route(touch(Ledger(book, key), p), p)), key)

\* the body of the loop for a record p that is routed to the ledger of key
apply_record(book, p, key) == Put(book, key, route(touch(Ledger(book, key), p), p))

\* the book with the record applied, or the raise of a statement of its
\* branch: the raise leaves aggregate_trades, and its agg is lost
applied_or_raised(book, applied, key) ==
  IF Crashed(applied[key]) THEN Fail(book) ELSE Done(applied)

\* the body of the loop for any record: skipped, filtered out, or routed
loop_body(book, t, only) ==
  IF ~Parsed[t].ok \/ Filtered(KeyOf[t], only) THEN Done(book)
  ELSE applied_or_raised(book, apply_record(book, Parsed[t], KeyOf[t]),
                         KeyOf[t])
\* the next pass of the loop, when no pass has raised
loop_pass(o, t, only) == IF o.ok THEN loop_body(o.v, t, only) ELSE o

\* def aggregate_trades(trades), under the quote filter only: the book it
\* returns, or ok FALSE when it raises
RECURSIVE aggregate_trades(_, _)
aggregate_trades(trades, only) ==
  IF trades = <<>> THEN Done(<<>>)
  ELSE loop_pass(aggregate_trades(SubSeq(trades, 1, Len(trades) - 1), only),
                 trades[Len(trades)], only)

\* a conversion raises inside the try block: "continue"
SkipRecord(t) ==
  /\ pc = "aggregate"
  /\ Len(batch) < MaxTrades
  /\ ~Parsed[t].ok
  /\ batch' = Append(batch, t)
  /\ last' = Op("skip", NoKey, DZero)
  /\ UNCHANGED io
  /\ UNCHANGED <<pc, ONLY_THESE_QUOTES, agg, indices, report, created, shrunk,
                 oversold>>

\* DropRecord with the fault of testing the filter after the ledger of the
\* record is reached: the ledger is made and its last_ts and pair_name set
DropRecordTouched(t) ==
  /\ pc = "aggregate"
  /\ Len(batch) < MaxTrades
  /\ Parsed[t].ok
  /\ \E key \in {KeyOf[t]} :
       /\ Filtered(key, ONLY_THESE_QUOTES)
       /\ agg' = Put(agg, key, touch(Ledger(agg, key), Parsed[t]))
       /\ last' = Op("drop", key, DZero)
  /\ batch' = Append(batch, t)
  /\ UNCHANGED io
  /\ UNCHANGED <<pc, ONLY_THESE_QUOTES, indices, report, created, shrunk,
                 oversold>>

\* the quote is not in ONLY_THESE_QUOTES: "continue"
DropRecord(t) ==
  /\ pc = "aggregate"
  /\ Len(batch) < MaxTrades
  /\ Parsed[t].ok
  /\ \E key \in {KeyOf[t]} :
       /\ Filtered(key, ONLY_THESE_QUOTES)
       /\ last' = Op("drop", key, DZero)
  /\ batch' = Append(batch, t)
  /\ UNCHANGED io
  /\ UNCHANGED <<pc, ONLY_THESE_QUOTES, agg, indices, report, created, shrunk,
                 oversold>>

\* the op a routed record is: a buy, a sell, or neither
OpOf(p) == IF p.typ = Buy THEN "buy" ELSE IF p.typ = Sell THEN "sell" ELSE "other"

\* the volume of a sell in excess of the volume held
Excess(p, held) ==
  IF p.typ = Sell /\ DGt(p.vol, held) THEN DSub(p.vol, held) ELSE DZero

\* the record is routed to its ledger: a buy, a sell, or neither
ApplyRecord(t) ==
  /\ pc = "aggregate"
  /\ Len(batch) < MaxTrades
  /\ \E p \in {Parsed[t]}, key \in {KeyOf[t]} :
       /\ p.ok
       /\ ~Filtered(key, ONLY_THESE_QUOTES)
       /\ \E book \in {apply_record(agg, p, key)} :
            /\ ~Crashed(book[key])
            /\ agg' = book
            /\ created' = Put(created, key,
                              IF p.typ = Buy
                              THEN Append(CreatedOf(key),
                                          book[key].lots[Len(book[key].lots)])
                              ELSE CreatedOf(key))
       /\ oversold' = Put(oversold, key,
                          DAdd(Hist(oversold, key),
                               Excess(p, total_remaining(Ledger(agg, key))[1])))
       /\ last' = Op(OpOf(p), key, DZero)
  /\ batch' = Append(batch, t)
  /\ UNCHANGED io
  /\ UNCHANGED <<pc, ONLY_THESE_QUOTES, indices, report, shrunk>>

\* a statement of the buy or of the sell branch raises: the exception leaves
\* aggregate_trades and main(), and the program ends with "ERROR: ...".  agg
\* is a local of aggregate_trades and is lost: the variable keeps the book
\* of the records before this one
ApplyRaise(t) ==
  /\ pc = "aggregate"
  /\ Len(batch) < MaxTrades
  /\ \E p \in {Parsed[t]}, key \in {KeyOf[t]} :
       /\ p.ok
       /\ ~Filtered(key, ONLY_THESE_QUOTES)
       /\ Crashed(apply_record(agg, p, key)[key])
       /\ last' = Op("raise", key, DZero)
  /\ batch' = Append(batch, t)
  /\ pc' = "raised"
  /\ UNCHANGED io
  /\ UNCHANGED <<ONLY_THESE_QUOTES, agg, indices, report, created, shrunk,
                 oversold>>

\* the batch is exhausted: aggregate_trades returns agg
EndBatch ==
  /\ pc = "aggregate"
  /\ pc' = "ask"
  /\ last' = Op("return", NoKey, DZero)
  /\ UNCHANGED io
  /\ UNCHANGED <<ONLY_THESE_QUOTES, agg, batch, indices, report, created,
                 shrunk, oversold>>

(***************************************************************************)
(* The valuation: fetch_current_prices and build_rows_with_prices.         *)
(***************************************************************************)
\* the characters of the texts, in the order Python compares them
Alphabet == <<"\t", "\n", "\f", "\r", " ", "+", ",", "-", ".", "/">>
              \o DigitChars \o UpperChars \o <<"_">> \o LowerChars
Ord(ch) == CHOOSE i \in 1..Len(Alphabet) : Alphabet[i] = ch

\* a < b for two texts
RECURSIVE TextLess(_, _)
TextLess(a, b) ==
  IF b = <<>> THEN FALSE
  ELSE IF a = <<>> THEN TRUE
  ELSE IF a[1] # b[1] THEN Ord(a[1]) < Ord(b[1])
  ELSE TextLess(Tail(a), Tail(b))

\* a < b for two keys (base, quote)
KeyLess(a, b) == TextLess(a[1], b[1]) \/ (a[1] = b[1] /\ TextLess(a[2], b[2]))

\* sorted(agg.items()): the keys in ascending order
RECURSIVE sorted(_)
sorted_from(keys, least) == <<least>> \o sorted(keys \ {least})
sorted(keys) ==
  IF keys = {} THEN <<>>
  ELSE sorted_from(keys, CHOOSE k \in keys : \A x \in keys \ {k} : KeyLess(k, x))

\* pair_names = {r["pair_name"] for r in agg.values() if r["pair_name"]}
pair_names(book) ==
  {book[key].pair_name : key \in DOMAIN book} \ {None}

\* data.get(k, ["0"])[0]: the first text of the list, "0" for a missing
\* key, IndexError for an empty list
First(entry) ==
  IF ~entry.has THEN Made(<<"0">>)
  ELSE IF entry.list = <<>> THEN NotMade
  ELSE Made(entry.list[1])

\* d(x) where a text that is no number raises (ConversionSyntax, an
\* InvalidOperation)
number(made) == IF made.ok THEN made.v ELSE DRaise("InvalidOperation")
\* d(data.get(k, ["0"])[0])
first_number(first) ==
  IF first.ok THEN number(d(first.v)) ELSE DRaise("IndexError")

\* the price of one pair of the Ticker result
ticker_price(data) ==
  IF USE_MIDPRICE
  THEN safe_div(DAdd(first_number(First(data.b)), first_number(First(data.a))),
                number(d(<<"2">>)))
  ELSE first_number(First(data.c))

\* the prices of the Ticker result, or the raise of one of them
prices_made(by_pair) ==
  IF \E name \in DOMAIN by_pair : Raised(by_pair[name]) THEN Fail(<<>>)
  ELSE Done(by_pair)

\* def fetch_current_prices(k, pair_names), ticker the response of
\* k.query_public("Ticker", ...)
fetch_current_prices(names, ticker) ==
  IF names = {} THEN Done(<<>>)
  ELSE IF ticker.error # <<>> THEN Done(<<>>)
  ELSE prices_made([name \in DOMAIN ticker.result |->
                      ticker_price(ticker.result[name])])

\* fetch_current_prices of the responses the runs draw from, worked out
\* once: by whether pair_names is empty, then by response (the names asked
\* for are sent to the endpoint, and the prices are what it answers)
PricesOf ==
  [none \in BOOLEAN |->
     [ticker \in Tickers \cup RowTickers |->
        fetch_current_prices(IF none THEN {} ELSE {XXBTZUSD}, ticker)]]

\* prices_by_pair.get(r["pair_name"], Decimal("0"))
price_of(by_pair, name) ==
  IF name \in DOMAIN by_pair THEN by_pair[name] ELSE DZero

\* unrealized_loop with the fault of valuing the lots at any price, a
\* missing one (0) included
RECURSIVE unrealized_unguarded(_, _, _, _)
unrealized_unguarded(lots, current_price, remaining_vol, unrealized) ==
  IF lots = <<>> THEN unrealized
  ELSE unrealized_unguarded(Tail(lots), current_price, remaining_vol,
                            DAdd(unrealized,
                                 DMul(DSub(current_price, lots[1][2]),
                                      lots[1][1])))

\* if current_price > 0 and remaining_vol > 0:
\*   for lot_vol, lot_px, _ in lots: unrealized += (current_price - lot_px) * lot_vol
RECURSIVE unrealized_loop(_, _, _, _)
unrealized_loop(lots, current_price, remaining_vol, unrealized) ==
  IF CmpRaises(current_price, DZero) THEN CmpRaise(current_price, DZero)
  ELSE IF ~DGt(current_price, DZero) THEN unrealized
  ELSE IF CmpRaises(remaining_vol, DZero) THEN CmpRaise(remaining_vol, DZero)
  ELSE IF ~DGt(remaining_vol, DZero) \/ lots = <<>> THEN unrealized
  ELSE unrealized_loop(Tail(lots), current_price, remaining_vol,
                       DAdd(unrealized,
                            DMul(DSub(current_price, lots[1][2]), lots[1][1])))

\* one row of build_rows_with_prices: every number is the Decimal that the
\* row holds the text of
row_of(key, r, remaining, current_price) ==
  [asset                      |-> key[1],
   quote                      |-> key[2],
   total_bought               |-> r.buy_vol,
   avg_buy_price              |-> avg_buy(r),
   total_sold                 |-> r.sell_vol,
   avg_sell_price             |-> avg_sell(r),
   net_from_history           |-> DSub(r.buy_vol, r.sell_vol),
   remaining_unsold_volume    |-> remaining[1],
   avg_buy_price_of_remaining |-> remaining_avg(remaining),
   fees_total                 |-> r.fees,
   realized_pnl               |-> r.realized_pnl,
   current_price              |-> current_price,
   unrealized_pnl             |->
     unrealized_loop(r.lots, current_price, remaining[1], DZero)]

\* the rows of the ledgers of keys, in that order
rows_of(book, by_pair, keys) ==
  [i \in 1..Len(keys) |->
     row_of(keys[i], book[keys[i]], total_remaining(book[keys[i]]),
            price_of(by_pair, book[keys[i]].pair_name))]

\* a statement that makes the row raised
RowRaised(row) ==
  \E x \in {row.avg_buy_price, row.avg_sell_price, row.net_from_history,
            row.remaining_unsold_volume, row.avg_buy_price_of_remaining,
            row.unrealized_pnl} : Raised(x)

\* the rows, or the raise of a statement of the loop
rows_made(made) ==
  IF \E i \in 1..Len(made) : RowRaised(made[i]) THEN Fail(<<>>) ELSE Done(made)

\* the body of build_rows_with_prices after fetch_current_prices, by_pair
\* what it returned
rows_priced(book, by_pair) ==
  rows_made(rows_of(book, by_pair, sorted(DOMAIN book)))

\* def build_rows_with_prices(agg, k), ticker the response of the Ticker
\* endpoint: the rows it returns, or ok FALSE when it raises
rows_from(book, fetch) ==
  IF fetch.ok THEN rows_priced(book, fetch.v) ELSE Fail(<<>>)
build_rows_with_prices(book, ticker) ==
  rows_from(book, fetch_current_prices(pair_names(book), ticker))

(***************************************************************************)
(* maybe_adjust_balances(agg)                                              *)
(***************************************************************************)
\* the entries with remaining inventory
Items == {key \in DOMAIN agg : DGt(total_remaining(agg[key])[1], DZero)}

\* building the items raises: total_remaining, or  rem_vol > 0  of a NaN
ItemsRaise ==
  \E key \in DOMAIN agg : CmpRaises(total_remaining(agg[key])[1], DZero)

\* choice.split(","): the pieces of the text between its commas
RECURSIVE split(_)
split_at(str, i) ==
  IF i = 0 THEN <<str>>
  ELSE <<SubSeq(str, 1, i - 1)>> \o split(SubSeq(str, i + 1, Len(str)))
split(str) ==
  split_at(str, IF At(str, ",") = {} THEN 0
                 ELSE CHOOSE i \in At(str, ",") : \A j \in At(str, ",") : i <= j)

\* x.isdigit(): not empty, every character a digit
isdigit(str) == str # <<>> /\ \A i \in 1..Len(str) : IsDigit(str[i])

\* the number a text of digits writes, its digits from the lowest up
number_of(digits) ==
  NStrip([i \in 1..Len(digits) |-> DigitVal(digits[Len(digits) + 1 - i])])

\* int(x) of a text of digits with whitespace around it: the number, or
\* ValueError for more than MaxStrDigits digits (leading zeros count)
int(x) ==
  IF Len(Strip(x)) > MaxStrDigits THEN Fail(<<>>)
  ELSE Done(number_of(Strip(x)))

\* 1 <= i <= len(items)
in_range(i, n) == i # <<>> /\ NCmp(i, NFromInt(n)) <= 0

\* an index in front of the indices of the pieces after it, or their raise
kept(index, rest) == IF rest.ok THEN Done(index \o rest.v) ELSE rest

\* try:
\*   indices = [int(x) for x in choice.split(",") if x.strip().isdigit()]
\*   indices = [i for i in indices if 1 <= i <= len(items)]
\* except Exception: ...
\* the indices, or ok FALSE when int() raises on one of the pieces
RECURSIVE valid_indices(_, _)
valid_indices(pieces, n) ==
  IF pieces = <<>> THEN Done(<<>>)
  ELSE IF ~isdigit(Strip(pieces[1])) THEN valid_indices(Tail(pieces), n)
  ELSE IF ~int(pieces[1]).ok THEN Fail(<<>>)
  ELSE kept(IF in_range(int(pieces[1]).v, n)
            THEN <<NToInt(int(pieces[1]).v)>> ELSE <<>>,
            valid_indices(Tail(pieces), n))

\* the indices the choice selects among n items: all of them for "all"; ok
\* FALSE when the except of lines 362-364 is taken
indices_of(choice, n) ==
  IF choice = <<"a", "l", "l">> THEN Done([i \in 1..n |-> i])
  ELSE valid_indices(split(choice), n)

\* the entries the text typed at "Your choice: " selects, in the order they
\* are prompted for: items[i - 1] for each index, items in sorted order; no
\* entry when the indices raise or none is valid ("No valid selection;
\* skipping adjustments.", lines 363 and 366)
selected(keys, picked) ==
  IF picked.ok THEN [j \in 1..Len(picked.v) |-> keys[picked.v[j]]] ELSE <<>>
Selection(text) ==
  selected(sorted(Items), indices_of(Lower(Strip(text)), Cardinality(Items)))

\* indices_of of the choices the runs draw from, worked out once: by the
\* text typed, then by the number of items
IndicesOf ==
  [text \in Choices \cup RowChoices |->
     [n \in 0..Cardinality({KeyOf[t] : t \in AllTrades}) |->
        indices_of(Lower(Strip(text)), n)]]

\* Selection(text) for a text of these choices
Selected(text) ==
  selected(sorted(Items), IndicesOf[text][Cardinality(Items)])

\* "Adjust current balances? (Y/N)": not yes, or end of input
AnswerNo ==
  /\ pc = "ask"
  /\ pc' = "rows"
  /\ last' = Op("no", NoKey, DZero)
  /\ UNCHANGED io
  /\ UNCHANGED <<ONLY_THESE_QUOTES, agg, batch, indices, report, created,
                 shrunk, oversold>>

\* yes: the menu is shown, or there is nothing to adjust; building the items
\* may raise, which ends main()
AnswerYes ==
  /\ pc = "ask"
  /\ IF ItemsRaise THEN pc' = "raised" /\ report' = report
     ELSE IF Items = {}
     THEN pc' = "rows" /\ report' = "nothing to adjust"
     ELSE pc' = "menu" /\ report' = "menu"
  /\ last' = Op("yes", NoKey, DZero)
  /\ UNCHANGED io
  /\ UNCHANGED <<ONLY_THESE_QUOTES, agg, batch, indices, created, shrunk,
                 oversold>>

\* "Your choice": "all", or a list whose indices convert, one of them valid
\* at least
Choose(text) ==
  /\ pc = "menu"
  /\ \E sel \in {Selected(text)} :
       /\ sel # <<>>
       /\ indices' = sel
  /\ pc' = "prompt"
  /\ report' = "none"
  /\ last' = Op("choice", NoKey, DZero)
  /\ UNCHANGED io
  /\ UNCHANGED <<ONLY_THESE_QUOTES, agg, batch, created, shrunk, oversold>>

\* "Your choice": no valid index, or int() raises on a piece: "No valid
\* selection; skipping adjustments."
ChooseNothing(text) ==
  /\ pc = "menu"
  /\ Selected(text) = <<>>
  /\ pc' = "rows"
  /\ report' = "no valid selection"
  /\ last' = Op("choice", NoKey, DZero)
  /\ UNCHANGED io
  /\ UNCHANGED <<ONLY_THESE_QUOTES, agg, batch, indices, created, shrunk,
                 oversold>>

\* "Your choice": end of input
ChooseEOF ==
  /\ pc = "menu"
  /\ pc' = "rows"
  /\ report' = "none"
  /\ last' = Op("eof", NoKey, DZero)
  /\ UNCHANGED io
  /\ UNCHANGED <<ONLY_THESE_QUOTES, agg, batch, indices, created, shrunk,
                 oversold>>

\* target = d(target_str); if target < 0: ...
Negative(target) == target.ok /\ DLt(target.v, DZero)

\* the try block of lines 377-383 for a target that is not negative: the
\* ledger shrink_lots_fifo_to_target leaves, or the raise of d(target_str),
\* of  target < 0  or of shrink_lots_fifo_to_target with the ledger as it
\* was at the raise
try_target(rec, target) ==
  IF ~target.ok \/ CmpRaises(target.v, DZero) THEN Fail(rec)
  ELSE shrink_lots_fifo_to_target(rec, target.v)

\* the volume gone from the lots old in the lots new, new being old with
\* volume taken from its head
Removed(old, new) ==
  DAdd(DSum([i \in 1..(Len(old) - Len(new)) |-> old[i][1]]),
       IF new = <<>> \/ new[1][1] = old[Len(old) - Len(new) + 1][1] THEN DZero
       ELSE DSub(old[Len(old) - Len(new) + 1][1], new[1][1]))

\* "Set target remaining volume", except Exception: "Please enter a valid
\* number", and the prompt again
TargetInvalid(text) ==
  /\ pc = "prompt"
  /\ \E target \in {Target[text]}, key \in {Head(indices)} :
       /\ ~Negative(target)
       /\ \E o \in {try_target(agg[key], target)} :
            /\ ~o.ok
            /\ agg' = [agg EXCEPT ![key] = o.v]
            /\ shrunk' = IF o.v = agg[key] THEN shrunk
                         ELSE Put(shrunk, key,
                                  DAdd(Hist(shrunk, key),
                                       Removed(agg[key].lots, o.v.lots)))
       /\ last' = Op("invalid", key, DZero)
  /\ report' = "enter a valid number"
  /\ UNCHANGED io
  /\ UNCHANGED <<pc, ONLY_THESE_QUOTES, batch, indices, created, oversold>>

\* TargetNegative with the fault of shrinking before the target is checked
TargetNegativeApplied(text) ==
  /\ pc = "prompt"
  /\ \E target \in {Target[text]} :
       /\ Negative(target)
       /\ agg' = [agg EXCEPT ![Head(indices)] =
                    shrink_lots_fifo_to_target(@, target.v).v]
       /\ last' = Op("negative", Head(indices), target.v)
  /\ report' = "target cannot be negative"
  /\ UNCHANGED io
  /\ UNCHANGED <<pc, ONLY_THESE_QUOTES, batch, indices, created, shrunk,
                 oversold>>

\* target < 0: "Target cannot be negative."
TargetNegative(text) ==
  /\ pc = "prompt"
  /\ \E target \in {Target[text]} :
       /\ Negative(target)
       /\ last' = Op("negative", Head(indices), target.v)
  /\ report' = "target cannot be negative"
  /\ UNCHANGED io
  /\ UNCHANGED <<pc, ONLY_THESE_QUOTES, agg, batch, indices, created, shrunk,
                 oversold>>

\* the volume a shrink to target is to remove from a ledger holding current
ToRemove(current, target) ==
  IF DLt(target, current) THEN DSub(current, target) ELSE DZero

\* a target >= 0 and shrink_lots_fifo_to_target(rec, target) returns: the
\* next index
TargetShrink(text) ==
  /\ pc = "prompt"
  /\ \E target \in {Target[text]}, key \in {Head(indices)} :
       /\ ~Negative(target)
       /\ \E o \in {try_target(agg[key], target)} :
            /\ o.ok
            /\ agg' = [agg EXCEPT ![key] = o.v]
       /\ shrunk' = Put(shrunk, key,
                        DAdd(Hist(shrunk, key),
                             ToRemove(total_remaining(agg[key])[1], target.v)))
       /\ last' = Op("shrink", key, target.v)
  /\ indices' = Tail(indices)
  /\ pc' = IF Tail(indices) = <<>> THEN "rows" ELSE "prompt"
  /\ report' = "none"
  /\ UNCHANGED io
  /\ UNCHANGED <<ONLY_THESE_QUOTES, batch, created, oversold>>

\* end of input at the target prompt: return, and the indices left are
\* dropped
TargetEOF ==
  /\ pc = "prompt"
  /\ pc' = "rows"
  /\ indices' = <<>>
  /\ report' = "none"
  /\ last' = Op("eof", Head(indices), DZero)
  /\ UNCHANGED io
  /\ UNCHANGED <<ONLY_THESE_QUOTES, agg, batch, created, shrunk, oversold>>

(***************************************************************************)
(* main(): rows = build_rows_with_prices(agg, k)                           *)
(***************************************************************************)
\* the Ticker endpoint answers with ticker: the rows are built, or a
\* statement raises and main() ends with "ERROR: ..."
BuildRows(ticker) ==
  /\ pc = "rows"
  /\ \E fetch \in {PricesOf[pair_names(agg) = {}][ticker]} :
       \E built \in {rows_from(agg, fetch)} :
         IF built.ok
         THEN pc' = "done" /\ prices' = fetch.v /\ rows' = built.v
         ELSE pc' = "raised" /\ UNCHANGED <<prices, rows>>
  /\ report' = "none"
  /\ last' = Op("rows", NoKey, DZero)
  /\ UNCHANGED <<resp, tries, queries, ofs, fetched>>
  /\ UNCHANGED <<ONLY_THESE_QUOTES, agg, batch, indices, created, shrunk,
                 oversold>>

\* main() from aggregate_trades on
Next ==
  \/ \E t \in Trades : SkipRecord(t)
  \/ \E t \in Trades : DropRecord(t)
  \/ \E t \in Trades : ApplyRecord(t)
  \/ \E t \in Trades : ApplyRaise(t)
  \/ EndBatch
  \/ AnswerNo
  \/ AnswerYes
  \/ \E text \in Choices : Choose(text)
  \/ \E text \in Choices : ChooseNothing(text)
  \/ ChooseEOF
  \/ \E text \in Targets : TargetInvalid(text)
  \/ \E text \in Targets : TargetNegative(text)
  \/ \E text \in Targets : TargetShrink(text)
  \/ TargetEOF
  \/ \E ticker \in Tickers : BuildRows(ticker)

Spec == Init /\ [][Next]_vars

\* main() from aggregate_trades on over the records of RowTrades (each of
\* them converts and none raises) and the responses of RowTickers
RowsNext ==
  \/ \E t \in RowTrades : DropRecord(t)
  \/ \E t \in RowTrades : ApplyRecord(t)
  \/ EndBatch
  \/ AnswerNo
  \/ AnswerYes
  \/ \E text \in RowChoices : Choose(text)
  \/ \E text \in RowChoices : ChooseNothing(text)
  \/ ChooseEOF
  \/ \E text \in RowTargets : TargetInvalid(text)
  \/ \E text \in RowTargets : TargetNegative(text)
  \/ \E text \in RowTargets : TargetShrink(text)
  \/ TargetEOF
  \/ \E ticker \in RowTickers : BuildRows(ticker)

RowsSpec == Init /\ [][RowsNext]_vars

(***************************************************************************)
(* main(): fetch_all_trades, over kraken_private_with_retry.               *)
(***************************************************************************)
\* " ".join(items)
RECURSIVE Join(_)
Join(items) ==
  IF items = <<>> THEN <<>>
  ELSE IF Len(items) = 1 THEN items[1]
  ELSE items[1] \o <<" ">> \o Join(Tail(items))

\* sub in msg
Contains(msg, sub) ==
  \E i \in 1..(Len(msg) - Len(sub) + 1) : SubSeq(msg, i, i + Len(sub) - 1) = sub

\* errs = resp.get("error") or []; the message of errs, a list or not
error_message(errs) ==
  IF errs = None THEN <<>>
  ELSE IF errs.list THEN Join(errs.items)
  ELSE errs.text

\* ("rate limit" in msg) or ("exceeded" in msg)
rate_limit_message(msg) ==
  \/ Contains(msg, <<"r", "a", "t", "e", " ", "l", "i", "m", "i", "t">>)
  \/ Contains(msg, <<"e", "x", "c", "e", "e", "d", "e", "d">>)

\* def is_rate_limit_error(resp)
is_rate_limit_error(r) ==
  IF ~r.dict THEN FALSE
  ELSE rate_limit_message(Lower(error_message(r.error)))

\* give_up with the fault of counting the first query as a retry
give_up_early(n) == n >= MAX_RETRIES

\* if tries > MAX_RETRIES: return resp
give_up(n) == n > MAX_RETRIES

\* resp.get("error") is truthy
has_error(r) ==
  IF r.error = None THEN FALSE
  ELSE IF r.error.list THEN r.error.items # <<>>
  ELSE r.error.text # <<>>

\* if resp.get("error"): raise RuntimeError; a resp that is no dict has no
\* get and raises AttributeError
raises(r) == IF r.dict THEN has_error(r) ELSE TRUE

\* page = list(trades_map.values()); count = result.get("count", 0)
page_of(r) == IF r.result = None THEN <<>> ELSE r.result.trades
count_of(r) == IF r.result = None THEN 0 ELSE r.result.count

\* kraken_private_with_retry: the query is answered by r, no rate-limit
\* error: return resp
QueryReturn(r) ==
  /\ pc = "query"
  /\ ~is_rate_limit_error(r)
  /\ resp' = r
  /\ queries' = queries + 1
  /\ pc' = "page"
  /\ UNCHANGED <<tries, ofs, fetched, prices, rows>>
  /\ UNCHANGED <<ONLY_THESE_QUOTES, agg, batch, indices, report, last,
                 created, shrunk, oversold>>

\* the query is answered by a rate-limit error: sleep, tries += 1, and query
\* again
QueryRetry(r) ==
  /\ pc = "query"
  /\ is_rate_limit_error(r)
  /\ ~give_up(tries + 1)
  /\ resp' = r
  /\ queries' = queries + 1
  /\ tries' = tries + 1
  /\ UNCHANGED <<pc, ofs, fetched, prices, rows>>
  /\ UNCHANGED <<ONLY_THESE_QUOTES, agg, batch, indices, report, last,
                 created, shrunk, oversold>>

\* the query is answered by a rate-limit error for the last time: sleep,
\* tries += 1, and return resp
QueryGiveUp(r) ==
  /\ pc = "query"
  /\ is_rate_limit_error(r)
  /\ give_up(tries + 1)
  /\ resp' = r
  /\ queries' = queries + 1
  /\ tries' = tries + 1
  /\ pc' = "page"
  /\ UNCHANGED <<ofs, fetched, prices, rows>>
  /\ UNCHANGED <<ONLY_THESE_QUOTES, agg, batch, indices, report, last,
                 created, shrunk, oversold>>

\* fetch_all_trades: resp is no dict (resp.get raises) or holds an error:
\* raise, and main() prints the error
FetchRaise ==
  /\ pc = "page"
  /\ raises(resp)
  /\ pc' = "raised"
  /\ UNCHANGED io
  /\ UNCHANGED <<ONLY_THESE_QUOTES, agg, batch, indices, report, last,
                 created, shrunk, oversold>>

\* the page is added, ofs < count: sleep, and the next call of
\* kraken_private_with_retry
FetchMore ==
  /\ pc = "page"
  /\ ~raises(resp)
  /\ ofs + Len(page_of(resp)) < count_of(resp)
  /\ fetched' = fetched \o page_of(resp)
  /\ ofs' = ofs + Len(page_of(resp))
  /\ tries' = 0
  /\ queries' = 0
  /\ pc' = "query"
  /\ UNCHANGED <<resp, prices, rows>>
  /\ UNCHANGED <<ONLY_THESE_QUOTES, agg, batch, indices, report, last,
                 created, shrunk, oversold>>

\* the page is added, ofs >= count: return trades
FetchReturn ==
  /\ pc = "page"
  /\ ~raises(resp)
  /\ ofs + Len(page_of(resp)) >= count_of(resp)
  /\ fetched' = fetched \o page_of(resp)
  /\ ofs' = ofs + Len(page_of(resp))
  /\ pc' = "fetched"
  /\ UNCHANGED <<resp, tries, queries, prices, rows>>
  /\ UNCHANGED <<ONLY_THESE_QUOTES, agg, batch, indices, report, last,
                 created, shrunk, oversold>>

\* main() about to call fetch_all_trades
FetchInit ==
  /\ pc = "query"
  /\ ONLY_THESE_QUOTES = {}
  /\ Fresh

FetchNext ==
  \/ \E r \in Responses : QueryReturn(r)
  \/ \E r \in Responses : QueryRetry(r)
  \/ \E r \in Responses : QueryGiveUp(r)
  \/ FetchRaise
  \/ FetchMore
  \/ FetchReturn

\* The program is sequential and takes its next step whenever it has one:
\* every query is answered and every sleep ends.
FetchSpec == FetchInit /\ [][FetchNext]_vars /\ WF_vars(FetchNext)

(***************************************************************************)
(* Properties.                                                             *)
(***************************************************************************)
\* the volume and the cost held in the lots of a ledger
Volume(rec) == DSum([i \in 1..Len(rec.lots) |-> rec.lots[i][1]])
Cost(rec) == DSum([i \in 1..Len(rec.lots) |-> rec.lots[i][3]])

\* C1 as stated: in every reachable state, for every ledger, the sum of the
\* remaining volumes of its lots is buy_vol - sell_vol - (the volume removed
\* by shrinks).
C1_Stated ==
  \A key \in DOMAIN agg :
    Volume(agg[key]) =
      DSub(DSub(agg[key].buy_vol, agg[key].sell_vol), Hist(shrunk, key))

\* C1: in every reachable state, for every ledger, the sum of the remaining
\* volumes of its lots is buy_vol - sell_vol - (the volume removed by
\* shrinks) + (the sell volume that found no lot to match).
C1_Volume ==
  \A key \in DOMAIN agg :
    Volume(agg[key]) =
      DAdd(DSub(DSub(agg[key].buy_vol, agg[key].sell_vol), Hist(shrunk, key)),
           Hist(oversold, key))

\* a ledger that was oversold, bought into again and then shrunk, with
\* volume left
C1_Witness ==
  \E key \in DOMAIN agg :
    /\ DGt(Hist(oversold, key), DZero)
    /\ DGt(Hist(shrunk, key), DZero)
    /\ DGt(Volume(agg[key]), DZero)

\* C2 as stated: in every reachable state, every lot of every ledger has
\* total_cost = remaining_volume * unit_cost.
C2_Stated ==
  \A key \in DOMAIN agg :
    \A i \in 1..Len(agg[key].lots) :
      agg[key].lots[i][3] = DMul(agg[key].lots[i][1], agg[key].lots[i][2])

\* a lot as a buy appends it: its unit cost is its total cost by its volume
\* (0 for no volume)
Appended(made) ==
  made[2] = IF DGt(made[1], DZero) THEN safe_div(made[3], made[1]) ELSE DZero

\* a lot no sell and no shrink has taken from
Untouched(lot, made) == lot = made

\* a lot that a sell or a shrink took a part of
PartlyUsed(lot, made) ==
  /\ lot[2] = made[2]
  /\ DGt(lot[1], DZero)
  /\ DLt(lot[1], made[1])
  /\ lot[3] = DMul(lot[1], lot[2])

\* C2: in every reachable state, the lots of a ledger are the youngest of
\* the lots its buys appended, whose total costs add up to buy_cost; a buy
\* appends its lot with unit_cost = total_cost / volume; each lot is as its
\* buy appended it (total_cost the cost of the buy), but for the oldest,
\* which may be partly consumed by a sell or a shrink and then has
\* total_cost = remaining_volume * unit_cost.
C2_Cost ==
  \A key \in DOMAIN agg :
    LET lots == agg[key].lots
        log  == CreatedOf(key)
        off  == Len(log) - Len(lots)
    IN  /\ off >= 0
        /\ DSum([i \in 1..Len(log) |-> log[i][3]]) = agg[key].buy_cost
        /\ (last.op = "buy" /\ last.key = key) => Appended(log[Len(log)])
        /\ \A i \in 1..Len(lots) :
             \/ Untouched(lots[i], log[off + i])
             \/ i = 1 /\ PartlyUsed(lots[1], log[off + 1])

\* a ledger whose oldest lot is partly consumed and whose next lot, as
\* appended, has a total_cost that is not volume * unit_cost
C2_Witness ==
  \E key \in DOMAIN agg :
    /\ Len(agg[key].lots) >= 2
    /\ agg[key].lots[1] # CreatedOf(key)[Len(CreatedOf(key)) - Len(agg[key].lots) + 1]
    /\ agg[key].lots[2][3] # DMul(agg[key].lots[2][1], agg[key].lots[2][2])

\* new is old with volume taken from its head only: some oldest lots are
\* gone, the next may be left with a part of its volume at its unit cost,
\* and every younger lot is as it was
TakenFromHead(old, new) ==
  \E k \in 0..Len(old) :
    \/ new = SubSeq(old, k + 1, Len(old))
    \/ /\ k < Len(old)
       /\ Len(new) = Len(old) - k
       /\ SubSeq(new, 2, Len(new)) = SubSeq(old, k + 2, Len(old))
       /\ new[1][2] = old[k + 1][2]
       /\ DGt(new[1][1], DZero)
       /\ DLt(new[1][1], old[k + 1][1])

\* the record of the last step
LastTrade == Parsed[batch[Len(batch)]]

\* the key of BTC/USD
BTCUSD == <<BTC, USD>>

\* C3: every step that applies a sell takes the volume it matches (the
\* sell volume, or all that is held) from the head of the queue only: a lot
\* gives volume only when every older lot is gone, the lot that is split is
\* the oldest left, the younger lots are untouched and in order.  After buys
\* B1 (2 at 10), B2 (3 at 20) and the sell S1 (3 for 90, fee 0) the realized
\* PnL is 50 and what is left is 2 of B2.
C3_Fifo ==
  [][last'.op = "sell" =>
       LET key  == last'.key
           held == Volume(Ledger(agg, key))
       IN  /\ TakenFromHead(Ledger(agg, key).lots, agg'[key].lots)
           /\ Volume(agg'[key]) = DSub(held, DMin(LastTrade'.vol, held))
           /\ batch' = <<B1, B2, S1>> =>
                /\ agg'[key].realized_pnl = d(<<"5", "0">>).v
                /\ agg'[key].lots =
                     <<<<d(<<"2">>).v, d(<<"2", "0">>).v, d(<<"4", "0">>).v>>>>
    ]_vars

\* B1, B2 and S1 have been applied: S1 took all of B1 and split B2
C3_Witness ==
  /\ batch = <<B1, B2, S1>>
  /\ last.op = "sell"
  /\ BTCUSD \in DOMAIN agg
  /\ agg[BTCUSD].realized_pnl = d(<<"5", "0">>).v
  /\ Len(agg[BTCUSD].lots) = 1

\* the accumulators of a ledger
Accumulators(rec) ==
  <<rec.buy_vol, rec.buy_cost, rec.sell_vol, rec.sell_proceeds, rec.fees,
    rec.realized_pnl>>

\* C4: a shrink (a step of any sequence of them, to any non-negative target)
\* leaves realized_pnl, sell_vol, sell_proceeds, fees, buy_vol and buy_cost
\* of every ledger as they were, and makes no ledger.
C4_Frame ==
  [][last'.op = "shrink" =>
       /\ DOMAIN agg' = DOMAIN agg
       /\ \A key \in DOMAIN agg :
            Accumulators(agg'[key]) = Accumulators(agg[key])
    ]_vars

\* a shrink has removed volume from a ledger that has realized PnL
C4_Witness ==
  /\ last.op = "shrink"
  /\ DGt(Hist(shrunk, last.key), DZero)
  /\ agg[last.key].realized_pnl # DZero
  /\ agg[last.key].sell_vol # DZero

\* C5: a shrink to a target greater than or equal to the remaining volume
\* of the ledger changes nothing: the lots and the accumulators of every
\* ledger are as before.
C5_NoOp ==
  [][(last'.op = "shrink" /\ DGe(last'.target, Volume(agg[last'.key])))
       => agg' = agg
    ]_vars

\* the boundary, a target equal to the volume held: the choice "1,1" of two
\* ledgers has asked the first one twice and the other never (it holds
\* volume and was not shrunk); the first target took volume, the second
\* target is the volume that was left
C5_Witness ==
  /\ pc = "rows"
  /\ last.op = "shrink"
  /\ last.target = Volume(agg[last.key])
  /\ DGt(last.target, DZero)
  /\ DGt(Hist(shrunk, last.key), DZero)
  /\ \E other \in DOMAIN agg :
       /\ KeyLess(last.key, other)
       /\ DGt(Volume(agg[other]), DZero)
       /\ Hist(shrunk, other) = DZero

\* C6: a shrink to a target t with 0 <= t < the remaining volume leaves
\* exactly t in the lots; the volume is taken from the head of the queue,
\* so the lots do not grow in number and no lot grows in volume.
C6_Target ==
  [][(last'.op = "shrink" /\ DLt(last'.target, Volume(agg[last'.key])))
       => /\ DGe(last'.target, DZero)
          /\ Volume(agg'[last'.key]) = last'.target
          /\ TakenFromHead(agg[last'.key].lots, agg'[last'.key].lots)
          /\ Len(agg'[last'.key].lots) <= Len(agg[last'.key].lots)
    ]_vars

\* a shrink to a positive target has removed one lot and split the next
C6_Witness ==
  /\ last.op = "shrink"
  /\ DGt(last.target, DZero)
  /\ DGt(Hist(shrunk, last.key), DZero)
  /\ Volume(agg[last.key]) = last.target
  /\ Len(agg[last.key].lots) < Len(CreatedOf(last.key))
  /\ agg[last.key].lots[1] \notin {CreatedOf(last.key)[i] : i \in DOMAIN CreatedOf(last.key)}

\* what a sell of all the lots at per_unit_proceeds realizes: the sum over
\* the lots, oldest first, of volume * per_unit_proceeds - volume * unit_cost
RECURSIVE MatchedPnl(_, _)
MatchedPnl(lots, per_unit_proceeds) ==
  IF lots = <<>> THEN DZero
  ELSE DAdd(MatchedPnl(SubSeq(lots, 1, Len(lots) - 1), per_unit_proceeds),
            DSub(DMul(lots[Len(lots)][1], per_unit_proceeds),
                 DMul(lots[Len(lots)][1], lots[Len(lots)][2])))

\* the proceeds per unit of a sell record p of positive volume
PerUnit(p) == safe_div(DSub(p.cost, p.fee), p.vol)

\* a sell record that asks for more than the ledger of its pair holds, and
\* that the filter lets through
Oversells(t) ==
  /\ Parsed[t].ok
  /\ Parsed[t].typ = Sell
  /\ ~Filtered(KeyOf[t], ONLY_THESE_QUOTES)
  /\ DGt(Parsed[t].vol, Volume(Ledger(agg, KeyOf[t])))

\* C7: a sell of more volume than the lots of its ledger hold is applied
\* without an error (no statement raises on it, and the batch goes on),
\* leaves no lot, and adds to realized_pnl the sum over the lots it consumed
\* of use * per_unit_proceeds - use * unit_cost, nothing for the excess.
C7_Oversell ==
  [][/\ \A t \in Trades :
          (pc = "aggregate" /\ Oversells(t))
            => ~Crashed(apply_record(agg, Parsed[t], KeyOf[t])[KeyOf[t]])
     /\ (last'.op = "sell" /\ DGt(LastTrade'.vol, Volume(Ledger(agg, last'.key))))
       => /\ pc' = "aggregate"
          /\ agg'[last'.key].lots = <<>>
          /\ agg'[last'.key].realized_pnl =
               DAdd(Ledger(agg, last'.key).realized_pnl,
                    MatchedPnl(Ledger(agg, last'.key).lots, PerUnit(LastTrade')))
    ]_vars

\* a sell of more than was held has consumed a lot at a profit
C7_Witness ==
  /\ last.op = "sell"
  /\ batch = <<B1, S1>>
  /\ Hist(oversold, last.key) = d(<<"1">>).v
  /\ agg[last.key].lots = <<>>
  /\ agg[last.key].realized_pnl = d(<<"4", "0">>).v

\* a record of volume 0 that is applied as a buy or a sell
ZeroVolume(t) ==
  Parsed[t].ok /\ Parsed[t].vol = DZero /\ Parsed[t].typ \in {Buy, Sell}
NotZeroVolume(t) == ~ZeroVolume(t)

\* the averages build_rows_with_prices reports of a ledger
Averages(rec) == <<avg_buy(rec), avg_sell(rec), remaining_avg_buy(rec)>>

\* C8 as stated: a record of volume 0 is applied without an error, the lot
\* a buy of volume 0 appends has volume 0 and unit cost 0, and the average
\* buy price, average sell price and average cost of the remaining inventory
\* of every pair are those of the batch without its records of volume 0
\* (compared before any adjustment).
C8_Stated ==
  /\ \A key \in DOMAIN created :
       \A i \in DOMAIN created[key] :
         created[key][i][1] = DZero => created[key][i][2] = DZero
  /\ shrunk = <<>> =>
       LET without == aggregate_trades(SelectSeq(batch, NotZeroVolume),
                                       ONLY_THESE_QUOTES).v
       IN  \A key \in DOMAIN without :
             /\ key \in DOMAIN agg
             /\ Averages(agg[key]) = Averages(without[key])

\* C9: a negative target is reported ("Target cannot be negative.") and
\* changes no ledger: the prompt is shown again for the same entry; and no
\* shrink is ever applied with a negative target.
C9_Negative ==
  [][/\ last'.op = "negative" =>
          /\ DLt(last'.target, DZero)
          /\ report' = "target cannot be negative"
          /\ agg' = agg
          /\ pc' = "prompt"
          /\ indices' = indices
     /\ last'.op = "shrink" => DGe(last'.target, DZero)
    ]_vars

\* a negative target has been typed for a ledger that holds lots
C9_Witness ==
  /\ last.op = "negative"
  /\ report = "target cannot be negative"
  /\ pc = "prompt"
  /\ DGt(Volume(agg[last.key]), DZero)

\* a record with a required field (pair, volume, price, fee, timestamp)
\* missing
Missing(t) ==
  None \in {t.pair, t.vol, t.price, t.fee, t.time}
\* a record with a field that is no number: a text the conversions reject,
\* or one they read as NaN or as an infinity
Misformatted(t) ==
  \/ ~Parsed[t].ok
  \/ \E x \in {Parsed[t].vol, Parsed[t].price, Parsed[t].cost, Parsed[t].fee,
               Parsed[t].ts} : ~IsFinite(x)
WellFormed(t) == ~Missing(t) /\ ~Misformatted(t)

\* C10 as stated: no record aborts the batch, a record that misses a
\* required field or has a misformatted one is skipped, and the book
\* aggregate_trades builds and returns is the book of the batch without
\* those records.
C10_Stated ==
  /\ last.op # "raise"
  /\ (last.op \in {"buy", "sell", "other"} /\ batch # <<>>) =>
       WellFormed(batch[Len(batch)])
  /\ pc \in {"aggregate", "ask"} =>
       agg = aggregate_trades(SelectSeq(batch, WellFormed), ONLY_THESE_QUOTES).v


\* a record the quote filter lets through (every record when none is
\* configured)
Allowed(t) ==
  ONLY_THESE_QUOTES = {} \/ KeyOf[t][2] \in ONLY_THESE_QUOTES

\* C11: with a quote filter configured, no ledger of the book has a quote
\* outside the filter, a step drops a record only when its quote is outside
\* the filter, and the book aggregate_trades builds and returns is the book
\* that the batch without the records of other quotes gives with no filter:
\* a dropped record makes no ledger and changes none.
C11_Dropped ==
  /\ \A key \in DOMAIN agg : ONLY_THESE_QUOTES # {} => key[2] \in ONLY_THESE_QUOTES
  /\ last.op = "drop" => ~Allowed(batch[Len(batch)])
  /\ pc \in {"aggregate", "ask"} =>
       agg = aggregate_trades(SelectSeq(batch, Allowed), {}).v

\* under the filter {USD}: a USD buy, then a USDT buy that is dropped, then
\* a USD sell that is matched against the first
C11_Witness ==
  /\ ONLY_THESE_QUOTES = {USD}
  /\ Len(batch) = 3
  /\ ~Allowed(batch[2]) /\ Parsed[batch[2]].ok
  /\ Allowed(batch[1]) /\ Parsed[batch[1]].typ = Buy
  /\ last.op = "sell"
  /\ DOMAIN agg = {<<BTC, USD>>}


\* the records of the batch routed to the ledger of key, in their order
OwnRecords(key) == SelectSeq(batch, LAMBDA t : KeyOf[t] = key)

\* C13: a step that applies a record or a shrink to the ledger of one key
\* leaves every other ledger of the book as it was and makes no other
\* ledger, and the ledger aggregate_trades builds for a key is the ledger
\* that the records of that key alone, in their order, give.
C13_Frame ==
  /\ [][/\ DOMAIN agg \subseteq DOMAIN agg'
        /\ DOMAIN agg' \subseteq DOMAIN agg \cup {last'.key}
        /\ \A key \in DOMAIN agg : key # last'.key => agg'[key] = agg[key]]_vars
  /\ [](pc \in {"aggregate", "ask"} =>
          \A key \in DOMAIN agg :
            agg[key] = aggregate_trades(OwnRecords(key), ONLY_THESE_QUOTES).v[key])

\* records of two keys interleaved, a ledger with lots for each, and then a
\* shrink of one of them
C13_Witness ==
  /\ Len(batch) = 3
  /\ KeyOf[batch[1]] = KeyOf[batch[3]]
  /\ KeyOf[batch[1]] # KeyOf[batch[2]]
  /\ \A i \in 1..3 : KeyOf[batch[i]] \in DOMAIN agg /\ Parsed[batch[i]].typ = Buy
  /\ last.op = "shrink"
  /\ \A key \in DOMAIN agg : DGt(Volume(agg[key]), DZero)


\* buy_vol, sell_vol and fees of the ledger new are at least those of old
NotDecreased(old, new) ==
  /\ DGe(new.buy_vol, old.buy_vol)
  /\ DGe(new.sell_vol, old.sell_vol)
  /\ DGe(new.fees, old.fees)

\* C14: the records having volume, price and fee >= 0, no step of a run
\* (a buy, a sell, a shrink or any other) lowers buy_vol, sell_vol or fees
\* of a ledger, a ledger starting at 0; a buy leaves sell_vol and
\* sell_proceeds of its ledger as they were, and a sell buy_vol and
\* buy_cost.
C14_Monotone ==
  [][\A key \in DOMAIN agg' :
       /\ NotDecreased(Ledger(agg, key), agg'[key])
       /\ (batch' # batch /\ last'.op = "buy" /\ last'.key = key) =>
            /\ agg'[key].sell_vol = Ledger(agg, key).sell_vol
            /\ agg'[key].sell_proceeds = Ledger(agg, key).sell_proceeds
       /\ (batch' # batch /\ last'.op = "sell" /\ last'.key = key) =>
            /\ agg'[key].buy_vol = Ledger(agg, key).buy_vol
            /\ agg'[key].buy_cost = Ledger(agg, key).buy_cost]_vars

\* a ledger that was bought into, sold from and then shrunk, with fees paid
C14_Witness ==
  /\ last.op = "shrink"
  /\ DGt(agg[last.key].buy_vol, DZero)
  /\ DGt(agg[last.key].sell_vol, DZero)
  /\ DGt(agg[last.key].fees, DZero)
  /\ DGt(Hist(shrunk, last.key), DZero)


\* the lots of the ledger of key at position off + 1 onwards of the lots its
\* buys appended: each with the unit cost it was appended with, all but the
\* head with the volume it was appended with, the head with no more, and
\* none brought to volume 0 (a lot of volume 0 was appended so)
SuffixOf(lots, log, off) ==
  /\ off >= 0
  /\ \A i \in 1..Len(lots) :
       /\ lots[i][2] = log[off + i][2]
       /\ i > 1 => lots[i][1] = log[off + i][1]
       /\ DLe(lots[i][1], log[off + i][1])
       /\ lots[i][1] = DZero => log[off + i][1] = DZero

\* the number of lots of the ledger of key that are gone from its queue
Gone(book, log, key) ==
  (IF key \in DOMAIN log THEN Len(log[key]) ELSE 0)
    - (IF key \in DOMAIN book THEN Len(book[key].lots) ELSE 0)

\* C17: in every reachable state the lots of a ledger are, in order, the
\* youngest of the lots its buys appended, with their unit costs, only the
\* head possibly with less than its volume, and no lot brought to volume
\* 0 still in the queue; a step never brings a lot back, and a buy removes
\* none.
C17_Suffix ==
  /\ [](\A key \in DOMAIN agg :
          SuffixOf(agg[key].lots, CreatedOf(key),
                   Len(CreatedOf(key)) - Len(agg[key].lots)))
  /\ [][\A key \in DOMAIN agg' :
          /\ Gone(agg', created', key) >= Gone(agg, created, key)
          /\ (batch' # batch /\ last'.op = "buy") =>
               Gone(agg', created', key) = Gone(agg, created, key)]_vars

\* a ledger with three lots appended: the oldest is gone, the next is
\* partly consumed, the youngest is as appended
C17_Witness ==
  \E key \in DOMAIN agg :
    /\ Len(CreatedOf(key)) = 3
    /\ Len(agg[key].lots) = 2
    /\ DLt(agg[key].lots[1][1], CreatedOf(key)[2][1])
    /\ DGt(agg[key].lots[1][1], DZero)


\* the money of a record: cost + fee of a buy, cost - fee of a sell
Amount(p) ==
  IF p.typ = Buy
  THEN DAdd(p.cost, IF INCLUDE_FEES_IN_COST THEN p.fee ELSE DZero)
  ELSE DSub(p.cost, IF INCLUDE_FEES_IN_COST THEN p.fee ELSE DZero)

\* a buy or a sell of a positive volume whose unit cost, or per-unit
\* proceeds, is an exact quotient
ExactQuotient(p) ==
  /\ p.ok
  /\ p.typ \in {Buy, Sell}
  /\ DGt(p.vol, DZero)
  /\ DMul(p.vol, safe_div(Amount(p), p.vol)) = Amount(p)
Exact == [t \in AllTrades |-> ExactQuotient(Parsed[t])]

\* the records of the ledger of key so far are buys and sells of positive
\* volume and exact quotients, and no sell exceeded the volume held
PlainHistory(key) ==
  /\ \A i \in 1..Len(batch) : KeyOf[batch[i]] = key => Exact[batch[i]]
  /\ Hist(oversold, key) = DZero

\* C20: while aggregate_trades runs and when it returns, a ledger whose
\* records are buys and sells of positive volume with exact unit costs and
\* per-unit proceeds, none selling more than is held, has
\* realized_pnl = sell_proceeds - (buy_cost - the total_cost of its lots);
\* with no lot left, realized_pnl = sell_proceeds - buy_cost.
C20_Realized ==
  pc \in {"aggregate", "ask"} =>
    \A key \in DOMAIN agg :
      PlainHistory(key) =>
        /\ agg[key].realized_pnl =
             DSub(agg[key].sell_proceeds,
                  DSub(agg[key].buy_cost, Cost(agg[key])))
        /\ agg[key].lots = <<>> =>
             agg[key].realized_pnl =
               DSub(agg[key].sell_proceeds, agg[key].buy_cost)

\* two buys and a sell that consumes the first lot and a part of the second
C20_Witness ==
  \E key \in DOMAIN agg :
    /\ pc = "aggregate"
    /\ PlainHistory(key)
    /\ last.op = "sell" /\ last.key = key
    /\ Len(CreatedOf(key)) = 2
    /\ Len(agg[key].lots) = 1
    /\ agg[key].lots[1] # CreatedOf(key)[2]
    /\ DGt(agg[key].realized_pnl, DZero)


\* the (base, quote) that the identifier forms of a pair stand for
NormalKey(pair) ==
  CASE pair = XXBTZUSD -> <<BTC, USD>>
    [] pair = XETHZUSD -> <<ETH, USD>>
    [] pair = ETHUSD   -> <<ETH, USD>>
    [] pair = ETH_USDT -> <<ETH, USDT>>

\* C12 as stated: parse_pair gives "XXBTZUSD" the key (BTC, USD), "XETHZUSD"
\* and "ETHUSD" the key (ETH, USD) and "ETH/USDT" the key (ETH, USDT), so
\* every record of these pairs is routed to the ledger of that key and the
\* book holds no other ledger.
C12_Stated ==
  /\ \A i \in 1..Len(batch) : KeyOf[batch[i]] = NormalKey(batch[i].pair)
  /\ last.op \in {"buy", "sell"} => last.key = NormalKey(batch[Len(batch)].pair)
  /\ DOMAIN agg \subseteq {<<BTC, USD>>, <<ETH, USD>>, <<ETH, USDT>>}


\* the Decimal a text stands for
Dec(text) == d(text).v

\* C15: the batch [buy 1.0 BTC/USD @ 9000 fee 9, sell 0.4 BTC/USD @ 10000
\* fee 4] gives the ledger (BTC, USD) remaining volume 0.6 and realized_pnl
\* 392.4, and its row avg_buy_price 9009, avg_sell_price 9990,
\* remaining_unsold_volume 0.6 and avg_buy_price_of_remaining 9009 (the
\* operator adjusting no balance: shrunk is empty).
C15_Fees ==
  (batch = <<F1, F2>> /\ shrunk = <<>>) =>
    /\ DOMAIN agg = {<<BTC, USD>>}
    /\ Volume(agg[<<BTC, USD>>]) = Dec(<<"0", ".", "6">>)
    /\ agg[<<BTC, USD>>].realized_pnl = Dec(<<"3", "9", "2", ".", "4">>)
    /\ pc = "done" =>
         /\ Len(rows) = 1
         /\ rows[1].asset = BTC /\ rows[1].quote = USD
         /\ rows[1].avg_buy_price = Dec(<<"9", "0", "0", "9">>)
         /\ rows[1].avg_sell_price = Dec(<<"9", "9", "9", "0">>)
         /\ rows[1].remaining_unsold_volume = Dec(<<"0", ".", "6">>)
         /\ rows[1].avg_buy_price_of_remaining = Dec(<<"9", "0", "0", "9">>)
         /\ rows[1].realized_pnl = Dec(<<"3", "9", "2", ".", "4">>)

\* the rows of the batch [F1, F2] are built
C15_Witness ==
  /\ batch = <<F1, F2>>
  /\ shrunk = <<>>
  /\ pc = "done"
  /\ Len(rows) = 1
  /\ rows[1].total_sold = Dec(<<"0", ".", "4">>)


\* the sum over the lots of (current_price - unit_cost) * remaining_volume
Valued(lots, current_price) ==
  DSum([j \in 1..Len(lots) |-> DMul(DSub(current_price, lots[j][2]), lots[j][1])])

\* the row is the valuation of the ledger rec under the price map by_pair
ValuedRow(row, rec, by_pair) ==
  /\ row.unrealized_pnl =
       IF DGt(row.current_price, DZero) /\ DGt(Volume(rec), DZero)
       THEN Valued(rec.lots, row.current_price) ELSE DZero
  /\ rec.pair_name \in DOMAIN by_pair => row.current_price = by_pair[rec.pair_name]
  /\ rec.pair_name \notin DOMAIN by_pair =>
       row.current_price = DZero /\ row.unrealized_pnl = DZero

\* C16: the rows built are one per ledger; the unrealized PnL of a row is
\* the sum over the lots of its ledger of (current_price - unit_cost) *
\* remaining_volume when the current price and the remaining volume are
\* > 0, and 0 otherwise; a ledger whose pair_name has no entry in the price
\* map has current price 0 and unrealized PnL 0; and the step that builds
\* the rows leaves the book as it was.
C16_Unrealized ==
  /\ [](pc = "done" =>
          /\ {<<rows[i].asset, rows[i].quote>> : i \in 1..Len(rows)} = DOMAIN agg
          /\ Len(rows) = Cardinality(DOMAIN agg)
          /\ \A i \in 1..Len(rows) :
               ValuedRow(rows[i], agg[<<rows[i].asset, rows[i].quote>>], prices))
  /\ [][pc' = "done" => agg' = agg]_vars

\* rows built with a ledger valued at a price above 0, its unrealized PnL
\* not 0, and a ledger with lots whose pair_name has no price
C16_Witness ==
  /\ pc = "done"
  /\ \E i \in 1..Len(rows) :
       /\ DGt(rows[i].current_price, DZero)
       /\ rows[i].unrealized_pnl # DZero
       /\ Len(agg[<<rows[i].asset, rows[i].quote>>].lots) = 2
  /\ \E i \in 1..Len(rows) :
       /\ agg[<<rows[i].asset, rows[i].quote>>].pair_name \notin DOMAIN prices
       /\ DGt(rows[i].remaining_unsold_volume, DZero)


\* C18: a call of kraken_private_with_retry issues at most MAX_RETRIES + 1
\* queries; while it goes on, every response so far was a rate-limit error;
\* a response that is no rate-limit error is returned at once, with no
\* further query; a rate-limit error is returned only as the response of
\* query MAX_RETRIES + 1; and every call returns.
C18_Retry ==
  /\ [](/\ queries <= MAX_RETRIES + 1
        /\ pc = "query" =>
             /\ queries = tries
             /\ queries > 0 => is_rate_limit_error(resp)
        /\ (pc = "page" /\ is_rate_limit_error(resp)) =>
             queries = MAX_RETRIES + 1)
  /\ [][(pc = "query" /\ ~is_rate_limit_error(resp')) =>
          (pc' = "page" /\ queries' = queries + 1)]_vars
  /\ (pc = "query") ~> (pc = "page")

\* a call that gave up: MAX_RETRIES + 1 queries, each answered by a
\* rate-limit error, the last of them returned
C18_Witness ==
  /\ pc = "page"
  /\ is_rate_limit_error(resp)
  /\ queries = MAX_RETRIES + 1
  /\ tries = MAX_RETRIES + 1


\* C19: fetch_all_trades terminates for every sequence of responses, and
\* when it returns it holds at least as many trades as the count of the
\* last response.
C19_Stated ==
  /\ <>(pc \in {"fetched", "raised"})
  /\ [](pc = "fetched" => Len(fetched) >= count_of(resp))

=============================================================================
